---- MODULE Spec2Model ----
(***************************************************************************)
(* A model of the CSV -> geospatial table conversion of gpkg_utils.py:     *)
(* coerce_value and csv_to_gdf, together with the library calls they make  *)
(* (int, float, bool, pandas.to_datetime, shapely.from_wkt, shapely Point, *)
(* csv.DictReader, geopandas.GeoDataFrame).                                *)
(*                                                                         *)
(* Python strings are TLA+ strings, read one character at a time; Python   *)
(* values are records tagged with their Python type in the field t.        *)
(***************************************************************************)
EXTENDS Integers, Sequences, FiniteSets, TLC

(***************************************************************************)
(* Strings.                                                                *)
(***************************************************************************)

\* The i-th character of s, as a string of length 1.
Char(s, i) == SubSeq(s, i, i)

Digits == {"0", "1", "2", "3", "4", "5", "6", "7", "8", "9"}

\* The characters str.strip() removes (the ones a CSV cell can hold).
Whitespace == {" ", "\t", "\n", "\r"}

UpperCase == "ABCDEFGHIJKLMNOPQRSTUVWXYZ"
LowerCase == "abcdefghijklmnopqrstuvwxyz"

\* str.lower() of one character.
LowerChar(c) ==
    IF \E i \in 1..Len(UpperCase) : Char(UpperCase, i) = c
    THEN Char(LowerCase, CHOOSE i \in 1..Len(UpperCase) : Char(UpperCase, i) = c)
    ELSE c

RECURSIVE Lower(_)
Lower(s) == IF s = "" THEN "" ELSE LowerChar(Head(s)) \o Lower(Tail(s))

RECURSIVE LStrip(_)
LStrip(s) == IF s # "" /\ Head(s) \in Whitespace THEN LStrip(Tail(s)) ELSE s

RECURSIVE RStrip(_)
RStrip(s) ==
    IF s # "" /\ Char(s, Len(s)) \in Whitespace
    THEN RStrip(SubSeq(s, 1, Len(s) - 1))
    ELSE s

Strip(s) == RStrip(LStrip(s))

\* The position of the first character of s that lies in cs, or 0.
FirstOf(s, cs) ==
    IF \E i \in 1..Len(s) : Char(s, i) \in cs
    THEN CHOOSE i \in 1..Len(s) :
            /\ Char(s, i) \in cs
            /\ \A j \in 1..(i - 1) : Char(s, j) \notin cs
    ELSE 0

\* s without a leading sign character.
DropSign(s) == IF s # "" /\ Head(s) \in {"+", "-"} THEN Tail(s) ELSE s

IsNegative(s) == s # "" /\ Head(s) = "-"

DigitValue(c) == CHOOSE n \in 0..9 : Char("0123456789", n + 1) = c

\* Python's "digitpart": digits, with single underscores allowed between them.
IsDigitPart(s) ==
    /\ s # ""
    /\ Head(s) \in Digits
    /\ Char(s, Len(s)) \in Digits
    /\ \A i \in 1..Len(s) : Char(s, i) \in Digits \cup {"_"}
    /\ \A i \in 1..(Len(s) - 1) : ~(Char(s, i) = "_" /\ Char(s, i + 1) = "_")

\* Digits only (C strtod, strptime fields).
IsDigitString(s) == s # "" /\ \A i \in 1..Len(s) : Char(s, i) \in Digits

\* The number a digitpart denotes, continuing from acc.
RECURSIVE DigitsValue(_, _)
DigitsValue(s, acc) ==
    IF s = "" THEN acc
    ELSE IF Head(s) = "_" THEN DigitsValue(Tail(s), acc)
    ELSE DigitsValue(Tail(s), 10 * acc + DigitValue(Head(s)))

\* The number of digits of a digitpart.
RECURSIVE DigitCount(_)
DigitCount(s) ==
    IF s = "" THEN 0
    ELSE (IF Head(s) = "_" THEN 0 ELSE 1) + DigitCount(Tail(s))

(***************************************************************************)
(* int(str) and float(str).                                                *)
(***************************************************************************)

\* int(value) accepts: whitespace, an optional sign, a digitpart, whitespace.
IsIntLiteral(s) == IsDigitPart(DropSign(Strip(s)))

IntOf(s) ==
    LET t == Strip(s)
        n == DigitsValue(DropSign(t), 0)
    IN  IF IsNegative(t) THEN 0 - n ELSE n

\* The mantissa and exponent parts of a decimal literal without sign.
MantissaOf(u) ==
    LET e == FirstOf(u, {"e", "E"})
    IN  IF e = 0 THEN u ELSE SubSeq(u, 1, e - 1)

ExponentOf(u) ==
    LET e == FirstOf(u, {"e", "E"})
    IN  IF e = 0 THEN "" ELSE SubSeq(u, e + 1, Len(u))

HasExponent(u) == FirstOf(u, {"e", "E"}) # 0

IntPartOf(m) ==
    LET d == FirstOf(m, {"."})
    IN  IF d = 0 THEN m ELSE SubSeq(m, 1, d - 1)

FracPartOf(m) ==
    LET d == FirstOf(m, {"."})
    IN  IF d = 0 THEN "" ELSE SubSeq(m, d + 1, Len(m))

\* A run of digits: Python's digitpart, or digits only.
IsDigitRun(s, underscores) == IF underscores THEN IsDigitPart(s) ELSE IsDigitString(s)

\* A decimal literal without sign: digits, an optional point, an optional
\* exponent; underscores tells whether its digit runs may hold underscores.
IsDecimal(u, underscores) ==
    LET m == MantissaOf(u)
        i == IntPartOf(m)
        f == FracPartOf(m)
    IN  /\ IF FirstOf(m, {"."}) = 0
           THEN IsDigitRun(i, underscores)
           ELSE /\ i = "" \/ IsDigitRun(i, underscores)
                /\ f = "" \/ IsDigitRun(f, underscores)
                /\ ~(i = "" /\ f = "")
        /\ HasExponent(u) => IsDigitRun(DropSign(ExponentOf(u)), underscores)

FloatWords == {"inf", "infinity", "nan"}

\* float(value) accepts: whitespace, an optional sign, then inf, infinity,
\* nan (any case) or a decimal literal, whitespace.
IsFloatLiteral(s) ==
    LET u == DropSign(Strip(s))
    IN  Lower(u) \in FloatWords \/ IsDecimal(u, TRUE)

RECURSIVE Normalise(_, _)
\* mant * 10^exp with no trailing zero in mant: equal numbers, equal records.
Normalise(mant, exp) ==
    IF mant = 0 THEN [mant |-> 0, exp |-> 0]
    ELSE IF mant % 10 = 0 THEN Normalise(mant \div 10, exp + 1)
    ELSE [mant |-> mant, exp |-> exp]

\* The number a decimal literal with optional sign denotes.
DecimalOf(t) ==
    LET u == DropSign(t)
        m == MantissaOf(u)
        x == ExponentOf(u)
        f == FracPartOf(m)
        digits == DigitsValue(IntPartOf(m) \o f, 0)
        e == IF x = "" THEN 0
             ELSE IF IsNegative(x) THEN 0 - DigitsValue(DropSign(x), 0)
             ELSE DigitsValue(DropSign(x), 0)
        n == Normalise(digits, e - DigitCount(f))
    IN  [kind |-> "num",
         mant |-> IF IsNegative(t) THEN 0 - n.mant ELSE n.mant,
         exp |-> n.exp]

\* float(value) for a float literal: a decimal number, or nan, inf, -inf.
FloatOf(s) ==
    LET t == Strip(s)
        w == Lower(DropSign(t))
    IN  IF w = "nan" THEN [kind |-> "nan", mant |-> 0, exp |-> 0]
        ELSE IF w \in FloatWords
        THEN [kind |-> IF IsNegative(t) THEN "-inf" ELSE "inf", mant |-> 0, exp |-> 0]
        ELSE DecimalOf(t)

(***************************************************************************)
(* Python values and exceptions.                                           *)
(***************************************************************************)

\* Python's None where a string is expected: what csv.DictReader puts in
\* the cells a short line lacks (restval). No CSV cell holds this text.
None == "<None>"

PyNone == [t |-> "None"]
PyStr(s) == [t |-> "str", v |-> s]
PyInt(n) == [t |-> "int", v |-> n]
PyFloat(f) == [t |-> "float", v |-> f]
PyBool(b) == [t |-> "bool", v |-> b]
PyDate(y, m, d) == [t |-> "date", y |-> y, m |-> m, d |-> d]
PyTimestamp(y, m, d, H, M, S) ==
    [t |-> "Timestamp", y |-> y, m |-> m, d |-> d, H |-> H, M |-> M, S |-> S]
NaT == [t |-> "NaT"]
PyGeometry(kind, coords) == [t |-> "geometry", kind |-> kind, coords |-> coords]

\* A raw cell as the Python value it is.
PyCell(value) == IF value = None THEN PyNone ELSE PyStr(value)

\* An exception: its class and what its message is built from. row = 0,
\* col = None, value = None: the message holds no row number, column name
\* or cell text. line is the line of csv_to_gdf the exception left it from
\* (its traceback), 0 before it reaches csv_to_gdf.
Raised(cls, template, rowno, col, value) ==
    [cls |-> cls, template |-> template, row |-> rowno, col |-> col, value |-> value,
     line |-> 0]

\* The exception e as it leaves the given line of csv_to_gdf.
From(line, e) == [e EXCEPT !.line = line]

NoError == Raised("", "", 0, None, None)

Ok(v) == [ok |-> TRUE, value |-> v, err |-> NoError]
Fail(e) == [ok |-> FALSE, value |-> PyNone, err |-> e]

\* The classes except ValueError catches.
ValueErrorClasses == {"ValueError"}

(***************************************************************************)
(* pandas.to_datetime(value, format=...) for the two formats used.         *)
(***************************************************************************)

\* strptime's field patterns, as the regular expressions _strptime builds.
IsYearField(s) == Len(s) = 4 /\ IsDigitString(s)

InRange(s, lo, hi) == IsDigitString(s) /\ DigitsValue(s, 0) \in lo..hi

\* %m: 1[0-2]|0[1-9]|[1-9]
IsMonthField(s) == Len(s) \in 1..2 /\ InRange(s, 1, 12)

\* %d: 3[01]|[12]\d|0[1-9]|[1-9]| [1-9]
IsDayField(s) ==
    \/ Len(s) \in 1..2 /\ InRange(s, 1, 31)
    \/ Len(s) = 2 /\ Head(s) = " " /\ InRange(Tail(s), 1, 9)

\* %H: 2[0-3]|[0-1]\d|\d
IsHourField(s) == Len(s) \in 1..2 /\ InRange(s, 0, 23)

\* %M: [0-5]\d|\d
IsMinuteField(s) == Len(s) \in 1..2 /\ InRange(s, 0, 59)

\* %S: 6[0-1]|[0-5]\d|\d
IsSecondField(s) == Len(s) \in 1..2 /\ InRange(s, 0, 61)

IsLeapYear(y) == y % 4 = 0 /\ (y % 100 # 0 \/ y % 400 = 0)

DaysInMonth(y, m) ==
    IF m = 2 THEN (IF IsLeapYear(y) THEN 29 ELSE 28)
    ELSE IF m \in {4, 6, 9, 11} THEN 30
    ELSE 31

\* s cut at its first character in cs: the text before it and the text after.
Before(s, cs) == IF FirstOf(s, cs) = 0 THEN s ELSE SubSeq(s, 1, FirstOf(s, cs) - 1)
After(s, cs) == IF FirstOf(s, cs) = 0 THEN "" ELSE SubSeq(s, FirstOf(s, cs) + 1, Len(s))
HasChar(s, cs) == FirstOf(s, cs) # 0

\* The strings pandas reads as a missing time.
NatStrings == {"", "NaT", "nat", "NAT", "nan", "NaN", "NAN"}

\* The date fields of "%Y-%m-%d": year, month, day texts.
DateFields(s) ==
    LET rest == After(s, {"-"})
    IN  <<Before(s, {"-"}), Before(rest, {"-"}), After(rest, {"-"})>>

DateMatches(s) ==
    LET f == DateFields(s)
    IN  /\ HasChar(s, {"-"})
        /\ HasChar(After(s, {"-"}), {"-"})
        /\ IsYearField(f[1])
        /\ IsMonthField(f[2])
        /\ IsDayField(f[3])

\* The calendar accepts the date (datetime's year 1..9999, the month's days).
DateValid(y, m, d) == y >= 1 /\ d <= DaysInMonth(y, m)

FieldValue(s) == DigitsValue(LStrip(s), 0)

\* "%Y-%m-%d %H:%M:%S": the date text, the white space, the time text. The
\* day field may itself begin with a blank, so the cut is after position 1
\* of what follows the second "-".
DateTimeDatePart(s) ==
    LET f == DateFields(s)
        d == f[3]
        cutAt == IF Len(d) >= 2 THEN FirstOf(Tail(d), Whitespace) ELSE 0
    IN  IF cutAt = 0 THEN s
        ELSE SubSeq(s, 1, Len(s) - Len(d) + cutAt)

DateTimeTimePart(s) ==
    LET f == DateFields(s)
        d == f[3]
        cutAt == IF Len(d) >= 2 THEN FirstOf(Tail(d), Whitespace) ELSE 0
    IN  IF cutAt = 0 THEN "" ELSE LStrip(SubSeq(d, cutAt + 1, Len(d)))

TimeFields(s) ==
    LET rest == After(s, {":"})
    IN  <<Before(s, {":"}), Before(rest, {":"}), After(rest, {":"})>>

TimeMatches(s) ==
    LET f == TimeFields(s)
    IN  /\ HasChar(s, {":"})
        /\ HasChar(After(s, {":"}), {":"})
        /\ IsHourField(f[1])
        /\ IsMinuteField(f[2])
        /\ IsSecondField(f[3])

DateTimeMatches(s) ==
    /\ DateMatches(DateTimeDatePart(s))
    /\ DateTimeDatePart(s) # s
    /\ TimeMatches(DateTimeTimePart(s))

NoMatch(value) ==
    Fail(Raised("ValueError", "time data {value} doesn't match format", 0, None, value))

OutOfRange ==
    Fail(Raised("ValueError", "day is out of range for month", 0, None, None))

\* pd.to_datetime(value, format="%Y-%m-%d"): a Timestamp at midnight, NaT
\* for None and for the missing-time strings, ValueError otherwise.
ToDatetimeDate(value) ==
    IF value = None \/ value \in NatStrings THEN Ok(NaT)
    ELSE IF ~DateMatches(value) THEN NoMatch(value)
    ELSE LET f == DateFields(value)
             y == FieldValue(f[1])
             m == FieldValue(f[2])
             d == FieldValue(f[3])
         IN  IF DateValid(y, m, d) THEN Ok(PyTimestamp(y, m, d, 0, 0, 0))
             ELSE OutOfRange

\* pd.to_datetime(value, format="%Y-%m-%d %H:%M:%S").
ToDatetimeDateTime(value) ==
    IF value = None \/ value \in NatStrings THEN Ok(NaT)
    ELSE IF ~DateTimeMatches(value) THEN NoMatch(value)
    ELSE LET f == DateFields(DateTimeDatePart(value))
             g == TimeFields(DateTimeTimePart(value))
             y == FieldValue(f[1])
             m == FieldValue(f[2])
             d == FieldValue(f[3])
             S == FieldValue(g[3])
         IN  IF DateValid(y, m, d) /\ S <= 59
             THEN Ok(PyTimestamp(y, m, d, FieldValue(g[1]), FieldValue(g[2]), S))
             ELSE OutOfRange

\* Timestamp.date(); NaT.date() is NaT.
DateOf(ts) == IF ts.t = "NaT" THEN NaT ELSE PyDate(ts.y, ts.m, ts.d)

(***************************************************************************)
(* shapely.from_wkt and shapely.geometry.Point.                            *)
(***************************************************************************)

WktDelimiters == {"(", ")", ","}

\* The tokens of a well-known text: words and numbers cut at white space,
\* and the three delimiters.
RECURSIVE WktTokens(_)
WktTokens(s) ==
    LET t == LStrip(s)
        n == FirstOf(t, Whitespace \cup WktDelimiters)
    IN  IF t = "" THEN <<>>
        ELSE IF Head(t) \in WktDelimiters THEN <<Head(t)>> \o WktTokens(Tail(t))
        ELSE IF n = 0 THEN <<t>>
        ELSE <<SubSeq(t, 1, n - 1)>> \o WktTokens(SubSeq(t, n, Len(t)))

\* A number as the reader's strtod takes it: sign, digits, point, exponent.
IsWktNumber(tok) == IsDecimal(DropSign(tok), FALSE)

\* The token sequences between the commas of ts.
RECURSIVE SplitAtCommas(_)
SplitAtCommas(ts) ==
    IF \E i \in 1..Len(ts) : ts[i] = ","
    THEN LET c == CHOOSE i \in 1..Len(ts) :
                    ts[i] = "," /\ \A j \in 1..(i - 1) : ts[j] # ","
         IN  <<SubSeq(ts, 1, c - 1)>> \o SplitAtCommas(SubSeq(ts, c + 1, Len(ts)))
    ELSE <<ts>>

\* One coordinate: two or three numbers.
IsCoordinate(ts) == Len(ts) \in 2..3 /\ \A i \in 1..Len(ts) : IsWktNumber(ts[i])

CoordinateOf(ts) == [i \in 1..Len(ts) |-> FloatOf(ts[i])]

\* "( c , c , ... )" with at least least coordinates, all of one dimension.
IsCoordinateList(ts, least) ==
    /\ Len(ts) >= 2
    /\ ts[1] = "("
    /\ ts[Len(ts)] = ")"
    /\ LET cs == SplitAtCommas(SubSeq(ts, 2, Len(ts) - 1))
       IN  /\ Len(cs) >= least
           /\ \A i \in 1..Len(cs) : IsCoordinate(cs[i]) /\ Len(cs[i]) = Len(cs[1])

CoordinatesOf(ts) ==
    LET cs == SplitAtCommas(SubSeq(ts, 2, Len(ts) - 1))
    IN  [i \in 1..Len(cs) |-> CoordinateOf(cs[i])]

\* The tokens after the geometry type word and its optional dimension word.
WktBody(ts) ==
    IF Len(ts) >= 2 /\ Lower(ts[2]) \in {"z", "m", "zm"}
    THEN SubSeq(ts, 3, Len(ts))
    ELSE SubSeq(ts, 2, Len(ts))

\* The geometry types the reader is modelled for: POINT and LINESTRING
\* (the other types of well-known text are not among the cells drawn).
WktKinds == {"point", "linestring"}

IsWkt(s) ==
    LET ts == WktTokens(s)
        body == WktBody(ts)
    IN  /\ Len(ts) >= 2
        /\ Lower(ts[1]) \in WktKinds
        /\ \/ Len(body) = 1 /\ Lower(body[1]) = "empty"
           \/ Lower(ts[1]) = "point" /\ IsCoordinateList(body, 1)
                /\ Len(SplitAtCommas(body)) = 1
           \/ Lower(ts[1]) = "linestring" /\ IsCoordinateList(body, 2)

\* shapely.from_wkt(value) for a non-empty string: the geometry, or
\* GEOSException.
from_wkt(value) ==
    LET ts == WktTokens(value)
        body == WktBody(ts)
        kind == IF Lower(ts[1]) = "point" THEN "Point" ELSE "LineString"
    IN  IF ~IsWkt(value)
        THEN Fail(Raised("GEOSException", "ParseException", 0, None, None))
        ELSE IF Len(body) = 1 THEN Ok(PyGeometry(kind, <<>>))
        ELSE Ok(PyGeometry(kind, CoordinatesOf(body)))

\* Point(x, y) of two floats.
Point(x, y) == PyGeometry("Point", << <<x, y>> >>)

\* float(value) of a cell: the float, or ValueError.
float(value) ==
    IF value = None
    THEN Fail(Raised("TypeError", "float() argument must be a string or a real number",
                     0, None, None))
    ELSE IF IsFloatLiteral(value) THEN Ok(PyFloat(FloatOf(value)))
    ELSE Fail(Raised("ValueError", "could not convert string to float: {value}",
                     0, None, value))

\* A slip: an empty cell is taken as a missing value.
IntOrMissing(value) ==
    IF value = None
    THEN Fail(Raised("TypeError", "int() argument must be a string or a real number",
                     0, None, None))
    ELSE IF value = "" THEN Ok(PyNone)
    ELSE IF IsIntLiteral(value) THEN Ok(PyInt(IntOf(value)))
    ELSE Fail(Raised("ValueError", "invalid literal for int() with base 10: {value}",
                     0, None, value))

\* int(value) of a cell: the int, or ValueError.
int(value) ==
    IF value = None
    THEN Fail(Raised("TypeError", "int() argument must be a string or a real number",
                     0, None, None))
    ELSE IF IsIntLiteral(value) THEN Ok(PyInt(IntOf(value)))
    ELSE Fail(Raised("ValueError", "invalid literal for int() with base 10: {value}",
                     0, None, value))

\* A slip: the text is read as a truth value, "false" and "0" are false.
BoolOfText(value) == value # None /\ Lower(value) \notin {"", "false", "0"}

\* Python's truth value of a cell: None and "" are false.
bool(value) == value # None /\ Len(value) > 0

(***************************************************************************)
(* gpkg_utils.py: DataType and coerce_value.                               *)
(***************************************************************************)

DataType ==
    {"TEXT", "INT", "DOUBLE", "BOOLEAN", "DATE", "DATETIME",
     "LATITUDE", "LONGITUDE", "GEOMETRY"}

UnknownDataType(key, dtype) ==
    Fail(Raised("Exception", "Unknown data type for col '{key}': {dtype}...",
                0, key, None))

\* A slip: a type tag without a branch yields a default instead of raising.
coerce_value_defaults(key, value, dtype) ==
    IF dtype = "TEXT" THEN Ok(PyCell(value))
    ELSE IF dtype = "INT" THEN int(value)
    ELSE IF dtype = "DOUBLE" THEN float(value)
    ELSE IF dtype = "BOOLEAN" THEN Ok(PyBool(bool(value)))
    ELSE IF dtype = "DATE"
    THEN LET ts == ToDatetimeDate(value)
         IN  IF ts.ok THEN Ok(DateOf(ts.value)) ELSE ts
    ELSE IF dtype = "DATETIME" THEN ToDatetimeDateTime(value)
    ELSE Ok(PyNone)

\* Convert a string into the correct data type.
coerce_value(key, value, dtype) ==
    IF dtype = "TEXT" THEN Ok(PyCell(value))
    ELSE IF dtype = "INT" THEN int(value)
    ELSE IF dtype = "DOUBLE" THEN float(value)
    ELSE IF dtype = "BOOLEAN" THEN Ok(PyBool(bool(value)))
    ELSE IF dtype = "DATE"
    THEN LET ts == ToDatetimeDate(value)
         IN  IF ts.ok THEN Ok(DateOf(ts.value)) ELSE ts
    ELSE IF dtype = "DATETIME" THEN ToDatetimeDateTime(value)
    ELSE UnknownDataType(key, dtype)

(***************************************************************************)
(* geopandas.GeoDataFrame(data, crs=crs).                                  *)
(***************************************************************************)

\* What pandas.isna holds of a value: None, NaT, a float nan.
IsMissing(v) ==
    \/ v.t \in {"None", "NaT"}
    \/ v.t = "float" /\ v.v.kind = "nan"

\* The geometry column takes geometries and missing values only.
IsGeometryOrMissing(v) == v.t = "geometry" \/ IsMissing(v)

\* The frame of the columns cols (in this order) of the dict data: all
\* columns must be equally long, and the column "geometry" must hold
\* geometries, or the constructor raises ValueError.
GeoDataFrame(cols, data, crs) ==
    IF \E a, b \in DOMAIN data : Len(data[a]) # Len(data[b])
    THEN Fail(Raised("ValueError", "All arrays must be of the same length",
                     0, None, None))
    ELSE IF \E i \in 1..Len(data["geometry"]) : ~IsGeometryOrMissing(data["geometry"][i])
    THEN Fail(Raised("ValueError",
                     "Assigning CRS to a GeoDataFrame without a geometry column is not supported",
                     0, None, None))
    ELSE Ok([t |-> "GeoDataFrame",
             columns |-> cols,
             data |-> data,
             rows |-> Len(data["geometry"]),
             crs |-> crs])

(***************************************************************************)
(* The inputs of csv_to_gdf.                                               *)
(***************************************************************************)

\* The most rows the reader yields.
MaxRows == 2

\* geom_col_spec: a str (one column of well-known text) or a tuple
\* (latitude column, longitude column).
StrSpec(name) == [tuple |-> FALSE, names |-> <<name>>]
TupleSpec(lat, lon) == [tuple |-> TRUE, names |-> <<lat, lon>>]

\* The attribute headers the tables drawn have, after their geometry columns.
AttributeLists ==
    {<<>>, <<"col1">>, <<"geometry">>, <<"col1", "col2">>, <<"col1", "geometry">>}

\* The tables: headers and geometry specification, as the tests pass them.
Tables ==
    {[headers |-> <<"geom">> \o a, spec |-> StrSpec("geom")] : a \in AttributeLists}
    \cup
    {[headers |-> <<"lat", "lon">> \o a, spec |-> TupleSpec("lat", "lon")] :
        a \in AttributeLists}

\* The cells drawn: of a well-known text column, of a latitude or longitude
\* column, of any other column.
GeometryCells == {"", "POINT (1 2)", "NOT A GEOM"}
LatCells == {"", "1.5", "x"}
LonCells == {"", "-2", "x"}
LatLonCells == LatCells \cup LonCells
AttributeCells == {"", "7"}

\* Tables for the shapes of geom_col_spec: a column name, the column name
\* of a header line whose first field is empty, a tuple of two names.
ShapeTables ==
    {[headers |-> <<"geom">> \o a, spec |-> StrSpec("geom")] : a \in {<<>>, <<"col1">>}}
    \cup
    {[headers |-> <<"">> \o a, spec |-> StrSpec("")] : a \in {<<>>, <<"col1">>}}
    \cup
    {[headers |-> <<"lat", "lon">> \o a, spec |-> TupleSpec("lat", "lon")] :
        a \in {<<>>, <<"col1">>}}

CrsValues == {"EPSG:4326", "EPSG:3857"}

Range(seq) == {seq[i] : i \in 1..Len(seq)}

\* The type the tests give a geometry column; any type for the others.
TypesOf(hs) ==
    {ty \in [Range(hs) -> DataType] :
        /\ "geom" \in Range(hs) => ty["geom"] = "GEOMETRY"
        /\ "" \in Range(hs) => ty[""] = "GEOMETRY"
        /\ "lat" \in Range(hs) => ty["lat"] = "LATITUDE"
        /\ "lon" \in Range(hs) => ty["lon"] = "LONGITUDE"}

CellsOf(h) ==
    IF h \in {"geom", ""} THEN GeometryCells
    ELSE IF h = "lat" THEN LatCells
    ELSE IF h = "lon" THEN LonCells
    ELSE AttributeCells

\* The lists of cells of the columns i.. of hs, every cell present.
RECURSIVE CellLists(_, _)
CellLists(hs, i) ==
    IF i > Len(hs) THEN {<<>>}
    ELSE {<<c>> \o rest : c \in CellsOf(hs[i]), rest \in CellLists(hs, i + 1)}

\* csv.DictReader: a row maps every fieldname to the text of its cell; the
\* cells a short line lacks are None, and a line has at least one cell.
DictRows(hs) ==
    {[h \in Range(hs) |->
        LET i == CHOOSE j \in 1..Len(hs) : hs[j] = h
        IN  IF i <= n THEN cells[i] ELSE None] :
            n \in 1..Len(hs), cells \in CellLists(hs, 1)}

\* All the cells and column names drawn.
AllCells == GeometryCells \cup LatLonCells \cup AttributeCells \cup {None}
AllNames == UNION {Range(tb.headers) : tb \in Tables \cup ShapeTables}

\* The rows a reader over each table can yield, computed once.
rows_of == [hs \in {tb.headers : tb \in Tables \cup ShapeTables} |-> DictRows(hs)]

\* coerce_value, from_wkt and float over the cells drawn, computed once.
coerced == [key \in AllNames, value \in AllCells, dtype \in DataType |->
                coerce_value(key, value, dtype)]
parsed_wkt == [value \in AllCells |-> from_wkt(value)]
parsed_float == [value \in AllCells |-> float(value)]

(***************************************************************************)
(* gpkg_utils.py: csv_to_gdf.                                              *)
(***************************************************************************)

VARIABLES
    headers,        \* the argument headers
    init_types,     \* the argument init_types
    geom_col_spec,  \* the argument geom_col_spec
    crs,            \* the argument crs
    pc,             \* "loop", "returned" or "raised"; "coerce_value", then
                    \* "coerce_value returned" or "coerce_value raised"
    yielded,        \* the number of rows the reader has yielded
    skipped,        \* the local skipped
    data,           \* the local data: column name -> list
    result,         \* what the call returned
    err,            \* the exception that left the call
    call,           \* the arguments of a call of another function alone
    outcome,        \* what that call returned or raised
    file,           \* the file at filepath
    conn,           \* the connections opened: "open" or "closed" each
    cursor,         \* the rows the cursor has still to yield
    layers,         \* the local layers
    columns,        \* the local columns
    requests,       \* the requests sent to GeoServer, in order
    resp,           \* the response to the last request
    get_resp,       \* fix_store_data: what get_resp.json() holds
    json_data,      \* fix_store_data: the local data
    files,          \* batch.py: the files of args.files still to come
    infos,          \* batch.py: the layers of infos still to come
    info,           \* batch.py: the loop variable info
    style,          \* batch.py: the global style
    exit_status,    \* batch.py: the exit status, None while it runs
    lat_cols,       \* csv2gpkg.py: the global lat_cols
    lon_cols,       \* csv2gpkg.py: the global lon_cols
    st_errors,      \* csv2gpkg.py: the messages given to st.error
    rows_read,      \* csv2gpkg.py: the rows taken from the reader
    written         \* csv2gpkg.py: the files written

\* The variables of the functions that read a GeoPackage.
gpkgVars == <<file, conn, cursor, layers, columns>>

\* The variables of the class GeoServer and of batch.py.
gsVars == <<requests, resp, get_resp, json_data>>
batchVars == <<files, infos, info, style, exit_status>>

\* The variables of the form of csv2gpkg.py.
formVars == <<lat_cols, lon_cols, st_errors, rows_read, written>>

\* The variables outside csv_to_gdf and coerce_value.
serviceVars == <<gpkgVars, gsVars, batchVars, formVars>>

vars ==
    <<headers, init_types, geom_col_spec, crs, pc, yielded, skipped, data, result, err,
      call, outcome, serviceVars>>

\* No file is read.
NoFile == [kind |-> "none"]
GpkgIdle ==
    /\ file = NoFile
    /\ conn = <<>>
    /\ cursor = <<>>
    /\ layers = <<>>
    /\ columns = <<>>

NoResponse == [status_code |-> 0]
NoJson == [t |-> "None"]

GsIdle ==
    /\ requests = <<>>
    /\ resp = NoResponse
    /\ get_resp = NoJson
    /\ json_data = NoJson

\* style = None of batch.py line 36.
NoStyle == [name |-> None, href |-> None]

BatchIdle ==
    /\ files = <<>>
    /\ infos = <<>>
    /\ info = None
    /\ style = NoStyle
    /\ exit_status = None

FormIdle ==
    /\ lat_cols = <<>>
    /\ lon_cols = <<>>
    /\ st_errors = <<>>
    /\ rows_read = 0
    /\ written = {}

ServicesIdle == GpkgIdle /\ GsIdle /\ BatchIdle /\ FormIdle

\* No call of coerce_value alone.
NoCall == [key |-> None, value |-> None, dtype |-> None]
NotCalled == [ok |-> FALSE, value |-> PyNone, err |-> NoError]

\* Lines 141-146: lat_col, lon_col, geom_col.
lat_col == IF geom_col_spec.tuple THEN geom_col_spec.names[1] ELSE None
lon_col == IF geom_col_spec.tuple THEN geom_col_spec.names[2] ELSE None
geom_col == IF geom_col_spec.tuple THEN None ELSE geom_col_spec.names[1]

\* The list [lat_col, lon_col, geom_col].
GeometryRoleCols == {lat_col, lon_col, geom_col}

\* Lines 148-151: the accumulators.
InitialData(hs, spec) ==
    [k \in {"geometry"} \cup
           {h \in Range(hs) :
               h \notin (IF spec.tuple THEN {spec.names[1], spec.names[2], None}
                         ELSE {None, spec.names[1]})}
       |-> <<>>]

\* The keys of data in insertion order.
DataColumns ==
    <<"geometry">> \o
        SelectSeq(headers, LAMBDA h : h \notin GeometryRoleCols /\ h # "geometry")

NoResult == [returned |-> FALSE]

Init ==
    /\ \E tb \in Tables :
        /\ headers = tb.headers
        /\ geom_col_spec = tb.spec
        /\ init_types \in TypesOf(tb.headers)
        /\ data = InitialData(tb.headers, tb.spec)
    /\ crs \in CrsValues
    /\ pc = "loop"
    /\ yielded = 0
    /\ skipped = 0
    /\ result = NoResult
    /\ err = NoError
    /\ call = NoCall
    /\ outcome = NotCalled
    /\ ServicesIdle

\* The outcome of the geometry part of one row.
SkipRow == [skip |-> TRUE, ok |-> TRUE, value |-> PyNone, err |-> NoError]
Geometry(line, r) ==
    [skip |-> FALSE, ok |-> r.ok, value |-> r.value,
     err |-> IF r.ok THEN NoError ELSE From(line, r.err)]

KeyError(key) == Fail(Raised("KeyError", "{key}", 0, key, None))

\* A slip: no test for an empty geometry cell, which then goes to the parser.
WktGeometryNoSkip(row, row_num) ==
    LET g == parsed_wkt[row[geom_col]]
    IN  IF g.ok THEN Geometry(162, g)
        ELSE Geometry(164, Fail(Raised("ValueError",
                                  "Error parsing WKT geometry in row {row_num + 1}: '{row[geom_col]}'",
                                  row_num + 1, None, row[geom_col])))

\* A slip: the message holds enumerate's 0-based row_num.
WktGeometryZeroBased(row, row_num) ==
    IF ~bool(row[geom_col]) THEN SkipRow
    ELSE LET g == parsed_wkt[row[geom_col]]
         IN  IF g.ok THEN Geometry(162, g)
             ELSE Geometry(164, Fail(Raised("ValueError",
                                       "Error parsing WKT geometry in row {row_num}: '{row[geom_col]}'",
                                       row_num, None, row[geom_col])))

\* A slip: the message numbers the row among the rows that were not skipped.
WktGeometryCountsContributed(row, row_num) ==
    IF ~bool(row[geom_col]) THEN SkipRow
    ELSE LET g == parsed_wkt[row[geom_col]]
         IN  IF g.ok THEN Geometry(162, g)
             ELSE Geometry(164, Fail(Raised("ValueError",
                                       "Error parsing WKT geometry in row {row_num + 1}: '{row[geom_col]}'",
                                       row_num - skipped + 1, None, row[geom_col])))

\* Lines 158-164: the geometry of a row in well-known text mode.
WktGeometry(row, row_num) ==
    IF ~bool(row[geom_col]) THEN SkipRow
    ELSE LET g == parsed_wkt[row[geom_col]]
         IN  IF g.ok THEN Geometry(162, g)
             ELSE Geometry(164, Fail(Raised("ValueError",
                                       "Error parsing WKT geometry in row {row_num + 1}: '{row[geom_col]}'",
                                       row_num + 1, None, row[geom_col])))

\* A slip: "not (lon or lat)", a row is skipped only when both are empty.
LatLonGeometryBothEmpty(row) ==
    IF ~(bool(row[lon_col]) \/ bool(row[lat_col])) THEN SkipRow
    ELSE LET x == parsed_float[row[lon_col]]
             y == parsed_float[row[lat_col]]
         IN  IF ~x.ok THEN Geometry(169, x)
             ELSE IF ~y.ok THEN Geometry(169, y)
             ELSE Geometry(169, Ok(Point(x.value.v, y.value.v)))

\* A slip: a latitude or longitude that is no number is skipped like an
\* empty one.
LatLonGeometrySkipsBadNumber(row) ==
    IF ~(bool(row[lon_col]) /\ bool(row[lat_col])) THEN SkipRow
    ELSE LET x == parsed_float[row[lon_col]]
             y == parsed_float[row[lat_col]]
         IN  IF ~x.ok \/ ~y.ok THEN SkipRow
             ELSE Geometry(169, Ok(Point(x.value.v, y.value.v)))

\* A slip: Point(latitude, longitude).
LatLonGeometrySwapped(row) ==
    IF lon_col \notin DOMAIN row THEN Geometry(166, KeyError(lon_col))
    ELSE IF ~bool(row[lon_col]) THEN SkipRow
    ELSE IF lat_col \notin DOMAIN row THEN Geometry(166, KeyError(lat_col))
    ELSE IF ~bool(row[lat_col]) THEN SkipRow
    ELSE LET x == parsed_float[row[lon_col]]
             y == parsed_float[row[lat_col]]
         IN  IF ~x.ok THEN Geometry(169, x)
             ELSE IF ~y.ok THEN Geometry(169, y)
             ELSE Geometry(169, Ok(Point(y.value.v, x.value.v)))

\* Lines 166-169: the geometry of a row in lat/lon mode.
LatLonGeometry(row) ==
    IF lon_col \notin DOMAIN row THEN Geometry(166, KeyError(lon_col))
    ELSE IF ~bool(row[lon_col]) THEN SkipRow
    ELSE IF lat_col \notin DOMAIN row THEN Geometry(166, KeyError(lat_col))
    ELSE IF ~bool(row[lat_col]) THEN SkipRow
    ELSE LET x == parsed_float[row[lon_col]]
             y == parsed_float[row[lat_col]]
         IN  IF ~x.ok THEN Geometry(169, x)
             ELSE IF ~y.ok THEN Geometry(169, y)
             ELSE Geometry(169, Ok(Point(x.value.v, y.value.v)))

\* Lines 157-169.
RowGeometry(row, row_num) ==
    IF bool(geom_col) THEN WktGeometry(row, row_num) ELSE LatLonGeometry(row)

\* Lines 172-176: the columns from the i-th on of row.items(), appended to d
\* until one fails.
RECURSIVE OtherColumns(_, _, _)
OtherColumns(i, row, d) ==
    IF i > Len(headers) THEN [data |-> d, err |-> NoError]
    ELSE LET key == headers[i]
             c == coerced[key, row[key], init_types[key]]
         IN  IF key \in GeometryRoleCols THEN OtherColumns(i + 1, row, d)
             ELSE IF ~c.ok THEN [data |-> d, err |-> From(176, c.err)]
             ELSE OtherColumns(i + 1, row, [d EXCEPT ![key] = Append(@, c.value)])

\* A slip: a failing row ends the loop and what was built so far is returned.
ProcessRowReturnsPartial(row) ==
    /\ pc = "loop"
    /\ yielded < MaxRows
    /\ yielded' = yielded + 1
    /\ LET g == RowGeometry(row, yielded)
           o == OtherColumns(1, row, [data EXCEPT !["geometry"] = Append(@, g.value)])
       IN  IF g.skip
           THEN /\ skipped' = skipped + 1
                /\ UNCHANGED <<data, pc, err, result>>
           ELSE IF ~g.ok
           THEN /\ pc' = "returned"
                /\ err' = g.err
                /\ result' = [returned |-> TRUE,
                              gdf |-> [t |-> "GeoDataFrame", columns |-> DataColumns,
                                       data |-> data, rows |-> Len(data["geometry"]),
                                       crs |-> crs],
                              skipped |-> skipped]
                /\ UNCHANGED <<data, skipped>>
           ELSE /\ data' = o.data
                /\ err' = o.err
                /\ pc' = IF o.err = NoError THEN "loop" ELSE "raised"
                /\ UNCHANGED <<skipped, result>>
    /\ UNCHANGED <<serviceVars, call, outcome, headers, init_types, geom_col_spec, crs>>

\* A slip: the attribute values of a row are coerced before its geometry
\* source is looked at.
ProcessRowCoercesFirst(row) ==
    /\ pc = "loop"
    /\ yielded < MaxRows
    /\ yielded' = yielded + 1
    /\ LET g == RowGeometry(row, yielded)
           early == OtherColumns(1, row, data)
           o == OtherColumns(1, row, [data EXCEPT !["geometry"] = Append(@, g.value)])
       IN  IF early.err # NoError
           THEN /\ pc' = "raised"
                /\ err' = early.err
                /\ UNCHANGED <<data, skipped>>
           ELSE IF g.skip
           THEN /\ skipped' = skipped + 1
                /\ UNCHANGED <<data, pc, err>>
           ELSE IF ~g.ok
           THEN /\ pc' = "raised"
                /\ err' = g.err
                /\ UNCHANGED <<data, skipped>>
           ELSE /\ data' = o.data
                /\ err' = o.err
                /\ pc' = IF o.err = NoError THEN "loop" ELSE "raised"
                /\ UNCHANGED skipped
    /\ UNCHANGED <<serviceVars, call, outcome, headers, init_types, geom_col_spec, crs, result>>

\* Lines 155-176: one turn of the loop, for the row the reader yields.
ProcessRow(row) ==
    /\ pc = "loop"
    /\ yielded < MaxRows
    /\ yielded' = yielded + 1
    /\ LET g == RowGeometry(row, yielded)
           o == OtherColumns(1, row, [data EXCEPT !["geometry"] = Append(@, g.value)])
       IN  IF g.skip
           THEN /\ skipped' = skipped + 1
                /\ UNCHANGED <<data, pc, err>>
           ELSE IF ~g.ok
           THEN /\ pc' = "raised"
                /\ err' = g.err
                /\ UNCHANGED <<data, skipped>>
           ELSE /\ data' = o.data
                /\ err' = o.err
                /\ pc' = IF o.err = NoError THEN "loop" ELSE "raised"
                /\ UNCHANGED skipped
    /\ UNCHANGED <<serviceVars, call, outcome, headers, init_types, geom_col_spec, crs, result>>

\* A slip: the frame gets the default crs of the form, not the argument.
ReturnDefaultCrs ==
    /\ pc = "loop"
    /\ LET gdf == GeoDataFrame(DataColumns, data, "EPSG:4326")
       IN  IF gdf.ok
           THEN /\ pc' = "returned"
                /\ result' = [returned |-> TRUE, gdf |-> gdf.value, skipped |-> skipped]
                /\ UNCHANGED err
           ELSE /\ pc' = "raised"
                /\ err' = From(178, gdf.err)
                /\ UNCHANGED result
    /\ UNCHANGED <<serviceVars, call, outcome, headers, init_types, geom_col_spec, crs, yielded, skipped, data>>

\* A slip: the list of headers is emptied once the frame is built.
ReturnClearsHeaders ==
    /\ pc = "loop"
    /\ LET gdf == GeoDataFrame(DataColumns, data, crs)
       IN  IF gdf.ok
           THEN /\ pc' = "returned"
                /\ result' = [returned |-> TRUE, gdf |-> gdf.value, skipped |-> skipped]
                /\ UNCHANGED err
           ELSE /\ pc' = "raised"
                /\ err' = From(178, gdf.err)
                /\ UNCHANGED result
    /\ headers' = <<>>
    /\ UNCHANGED <<serviceVars, call, outcome, init_types, geom_col_spec, crs, yielded, skipped, data>>

\* Lines 177-179: the reader is exhausted; build the frame and return.
Return ==
    /\ pc = "loop"
    /\ LET gdf == GeoDataFrame(DataColumns, data, crs)
       IN  IF gdf.ok
           THEN /\ pc' = "returned"
                /\ result' = [returned |-> TRUE, gdf |-> gdf.value, skipped |-> skipped]
                /\ UNCHANGED err
           ELSE /\ pc' = "raised"
                /\ err' = From(178, gdf.err)
                /\ UNCHANGED result
    /\ UNCHANGED <<serviceVars, call, outcome, headers, init_types, geom_col_spec, crs, yielded, skipped, data>>

Next ==
    \/ \E row \in rows_of[headers] : ProcessRow(row)
    \/ Return

Spec == Init /\ [][Next]_vars

\* The texts a call of coerce_value alone is given.
CoerceValues ==
    {"", " ", "0", "7", "-12", "+3", " 42 ", "1_000", "007", "1.5", "1e3", "12abc",
     "abc", "false", "true", "2023-01-15", "15/01/2023", "2023-02-30", "2023-13-01",
     "2023-01-15 10:30:00", "2023-01-15 25:00:00", "10:30:00", "nan", "inf"}

\* coerce_value(key, value, dtype) called alone, for a column "col1".
InitCoerce ==
    /\ call \in [key : {"col1"}, value : CoerceValues, dtype : DataType]
    /\ outcome = NotCalled
    /\ headers = <<"col1">>
    /\ init_types = [h \in {"col1"} |-> call.dtype]
    /\ geom_col_spec = StrSpec("geom")
    /\ crs = "EPSG:4326"
    /\ pc = "coerce_value"
    /\ yielded = 0
    /\ skipped = 0
    /\ data = [k \in {"col1"} |-> <<>>]
    /\ result = NoResult
    /\ err = NoError
    /\ ServicesIdle

\* Lines 46-61: the call returns or raises.
CoerceValue ==
    /\ pc = "coerce_value"
    /\ outcome' = coerce_value(call.key, call.value, call.dtype)
    /\ pc' = IF outcome'.ok THEN "coerce_value returned" ELSE "coerce_value raised"
    /\ UNCHANGED <<serviceVars, call, headers, init_types, geom_col_spec, crs, yielded, skipped,
                   data, result, err>>

NextCoerce == CoerceValue

SpecCoerce == InitCoerce /\ [][NextCoerce]_vars

\* The calls over the tables of ShapeTables.
InitShapes ==
    /\ \E tb \in ShapeTables :
        /\ headers = tb.headers
        /\ geom_col_spec = tb.spec
        /\ init_types \in TypesOf(tb.headers)
        /\ data = InitialData(tb.headers, tb.spec)
    /\ crs \in CrsValues
    /\ pc = "loop"
    /\ yielded = 0
    /\ skipped = 0
    /\ result = NoResult
    /\ err = NoError
    /\ call = NoCall
    /\ outcome = NotCalled
    /\ ServicesIdle

SpecShapes == InitShapes /\ [][Next]_vars

(***************************************************************************)
(* gpkg_utils.py: get_layer_info, get_column_info, check_invalid_geometry; *)
(* fix.py: fix_invalid_geom.                                               *)
(***************************************************************************)

\* The variables of csv_to_gdf, and their values while another function runs.
csvVars ==
    <<headers, init_types, geom_col_spec, crs, yielded, skipped, data, result, err>>

CsvIdle ==
    /\ headers = <<>>
    /\ init_types = <<>>
    /\ geom_col_spec = StrSpec("")
    /\ crs = ""
    /\ yielded = 0
    /\ skipped = 0
    /\ data = <<>>
    /\ result = NoResult
    /\ err = NoError

\* str(n) of an int.
RECURSIVE NatToStr(_)
NatToStr(n) ==
    IF n < 10 THEN SubSeq("0123456789", n + 1, n + 1)
    ELSE NatToStr(n \div 10) \o SubSeq("0123456789", (n % 10) + 1, (n % 10) + 1)

IntToStr(n) == IF n < 0 THEN "-" \o NatToStr(0 - n) ELSE NatToStr(n)

\* A row of gpkg_contents with the organization of its srs_id in
\* gpkg_spatial_ref_sys, None when that table has no row for the srs_id.
ContentsRow(tn, dt, bounds, srs_id, auth) ==
    [table_name |-> tn, data_type |-> dt, identifier |-> tn, description |-> "",
     min_x |-> bounds[1], min_y |-> bounds[2], max_x |-> bounds[3], max_y |-> bounds[4],
     srs_id |-> srs_id, organization |-> auth]

FeaturesRow == ContentsRow("invalid_geom", "features", <<0, 0, 2, 1>>, 4326, "EPSG")
AttributesRow == ContentsRow("notes", "attributes", <<0, 0, 0, 0>>, 0, "NONE")
TilesRow == ContentsRow("relief", "tiles", <<0, 0, 2, 1>>, 3857, "EPSG")
OrphanRow == ContentsRow("orphan", "features", <<0, 0, 2, 1>>, 9999, None)

ContentsLists ==
    {<<>>, <<FeaturesRow>>, <<AttributesRow>>, <<OrphanRow, FeaturesRow>>,
     <<FeaturesRow, TilesRow>>, <<FeaturesRow, AttributesRow>>}

\* The files at filepath: one that cannot be opened, one that is no SQLite
\* database, a database without the tables of a GeoPackage, and GeoPackages.
\* geometry_columns: the table names gpkg_geometry_columns has a row for,
\* each with the column "geom"; tables: the tables there are, each with the
\* columns fid, geom, name; invalid: the rows of a table with a bad geometry.
FileOf(kind, contents, geometry_columns) ==
    [kind |-> kind, contents |-> contents, geometry_columns |-> geometry_columns,
     tables |-> {contents[i].table_name : i \in 1..Len(contents)}, invalid |-> 1]

GpkgFiles ==
    {FileOf(kind, <<>>, {}) : kind \in {"unopenable", "not a database", "sqlite"}}
    \cup
    {FileOf("gpkg", c, g) : c \in ContentsLists, g \in {{}, {"invalid_geom"}}}

TableNames == {"invalid_geom", "notes", "missing"}

GpkgFunctions ==
    {"get_layer_info", "get_column_info", "check_invalid_geometry", "fix_invalid_geom"}

GpkgCall(fn, table_name) == [fn |-> fn, key |-> None, value |-> table_name, dtype |-> None]

\* A call of one of the functions: its filepath names file, its table_name
\* is call.value.
InitGpkg ==
    /\ file \in GpkgFiles
    /\ \E fn \in GpkgFunctions :
          IF fn \in {"get_layer_info", "fix_invalid_geom"}
          THEN call = GpkgCall(fn, None)
          ELSE \E tn \in TableNames : call = GpkgCall(fn, tn)
    /\ outcome = NotCalled
    /\ pc = "connect"
    /\ conn = <<>>
    /\ cursor = <<>>
    /\ layers = <<>>
    /\ columns = <<>>
    /\ CsvIdle
    /\ GsIdle
    /\ BatchIdle
    /\ FormIdle

\* The exceptions of sqlite3 and the one the functions raise in their place.
OperationalError(text) == Raised("sqlite3.OperationalError", text, 0, None, None)
DatabaseError(text) == Raised("sqlite3.DatabaseError", text, 0, None, None)
GeoPackageError ==
    Raised("GeoPackageError",
           "Error reading GeoPackage '{filepath}' (is it the right format?) {e}",
           0, None, None)

DatabaseErrorClasses == {"sqlite3.DatabaseError", "sqlite3.OperationalError"}

\* try ... except sqlite3.DatabaseError: raise GeoPackageError(...).
ExceptDatabaseError(e) == IF e.cls \in DatabaseErrorClasses THEN GeoPackageError ELSE e

\* What executing a statement that reads the tables named raises, or NoError.
ExecuteError(tables) ==
    IF file.kind = "not a database" THEN DatabaseError("file is not a database")
    ELSE IF file.kind = "sqlite" /\ tables # {} THEN OperationalError("no such table")
    ELSE IF ~(tables \subseteq {"gpkg_contents", "gpkg_spatial_ref_sys",
                                "gpkg_geometry_columns"} \cup file.tables)
    THEN OperationalError("no such table")
    ELSE NoError

\* Lines 22-28 and 126: the record of a row.
GPLayerInfo(row) ==
    [table_name |-> row.table_name,
     data_type |-> row.data_type,
     identifier |-> row.identifier,
     description |-> row.description,
     bounds |-> <<row.min_x, row.min_y, row.max_x, row.max_y>>,
     srs |-> row.organization \o ":" \o IntToStr(row.srs_id)]

\* Lines 66, 82, 107 and fix.py line 20: sqlite3.connect, spatialite.connect.
\* A file that cannot be opened raises here, before any try.
Connect ==
    /\ pc = "connect"
    /\ IF file.kind = "unopenable"
       THEN /\ outcome' = Fail(OperationalError("unable to open database file"))
            /\ pc' = "raised"
            /\ UNCHANGED conn
       ELSE /\ conn' = Append(conn, "open")
            /\ pc' = "execute"
            /\ UNCHANGED outcome
    /\ UNCHANGED <<call, file, cursor, layers, columns, csvVars, gsVars, batchVars, formVars>>

\* Lines 110-125: the join of gpkg_contents and gpkg_spatial_ref_sys.
ExecuteLayerQuery ==
    /\ pc = "execute"
    /\ call.fn \in {"get_layer_info", "fix_invalid_geom"}
    /\ Len(conn) = 1
    /\ LET e == ExecuteError({"gpkg_contents", "gpkg_spatial_ref_sys"})
       IN  IF e # NoError
           THEN /\ outcome' = Fail(ExceptDatabaseError(e))
                /\ pc' = "finally"
                /\ UNCHANGED cursor
           ELSE /\ cursor' = SelectSeq(file.contents, LAMBDA row : row.organization # None)
                /\ pc' = "fetch"
                /\ UNCHANGED outcome
    /\ UNCHANGED <<call, file, conn, layers, columns, csvVars, gsVars, batchVars, formVars>>

\* Lines 111 and 126: one turn of the loop over the cursor.
FetchLayer ==
    /\ pc = "fetch"
    /\ IF cursor = <<>>
       THEN /\ pc' = "finally"
            /\ UNCHANGED <<cursor, layers>>
       ELSE /\ layers' = Append(layers, GPLayerInfo(Head(cursor)))
            /\ cursor' = Tail(cursor)
            /\ UNCHANGED pc
    /\ UNCHANGED <<call, outcome, file, conn, columns, csvVars, gsVars, batchVars, formVars>>

\* Lines 69-71: PRAGMA table_info, which yields no row for a table that is
\* not there.
ExecuteTableInfo ==
    /\ pc = "execute"
    /\ call.fn = "get_column_info"
    /\ LET e == ExecuteError({})
       IN  IF e # NoError
           THEN /\ outcome' = Fail(ExceptDatabaseError(e))
                /\ UNCHANGED columns
           ELSE /\ columns' = IF call.value \in file.tables
                              THEN <<"fid", "geom", "name">> ELSE <<>>
                /\ UNCHANGED outcome
    /\ pc' = "finally"
    /\ UNCHANGED <<call, file, conn, cursor, layers, csvVars, gsVars, batchVars, formVars>>

TypeError(text) == Raised("TypeError", text, 0, None, None)

\* Lines 84-88: the geometry column of the table; fetchone() is None when
\* gpkg_geometry_columns has no row for the table.
LookupGeometryColumn ==
    /\ pc = "execute"
    /\ call.fn = "check_invalid_geometry"
    /\ LET e == ExecuteError({"gpkg_geometry_columns"})
       IN  IF e # NoError
           THEN /\ outcome' = Fail(ExceptDatabaseError(e))
                /\ pc' = "finally"
                /\ UNCHANGED columns
           ELSE IF call.value \notin file.geometry_columns
           THEN /\ outcome' = Fail(ExceptDatabaseError(
                                     TypeError("'NoneType' object is not subscriptable")))
                /\ pc' = "finally"
                /\ UNCHANGED columns
           ELSE /\ columns' = <<"geom">>
                /\ pc' = "count"
                /\ UNCHANGED outcome
    /\ UNCHANGED <<call, file, conn, cursor, layers, csvVars, gsVars, batchVars, formVars>>

\* Lines 90-99: the count of the bad geometries of the table.
CountInvalid ==
    /\ pc = "count"
    /\ LET e == ExecuteError({call.value})
       IN  outcome' = IF e # NoError THEN Fail(ExceptDatabaseError(e))
                      ELSE Ok(PyInt(file.invalid))
    /\ pc' = "finally"
    /\ UNCHANGED <<call, file, conn, cursor, layers, columns, csvVars, gsVars, batchVars, formVars>>

\* Lines 74-76, 102-103, 129-131: finally conn.close(), then the return, or
\* the exception goes on to the caller.
Finally ==
    /\ pc = "finally"
    /\ Len(conn) = 1
    /\ conn' = <<"closed">>
    /\ IF outcome.err # NoError
       THEN pc' = "raised" /\ UNCHANGED outcome
       ELSE IF call.fn = "fix_invalid_geom"
       THEN pc' = "fix: connect" /\ UNCHANGED outcome
       ELSE /\ pc' = "returned"
            /\ outcome' = IF call.fn = "get_layer_info" THEN Ok(layers)
                          ELSE IF call.fn = "get_column_info" THEN Ok(columns)
                          ELSE outcome
    /\ UNCHANGED <<call, file, cursor, layers, columns, csvVars, gsVars, batchVars, formVars>>

\* getattr(obj, name) of a named tuple.
GetAttr(obj, name) ==
    IF name \in DOMAIN obj THEN Ok(obj[name])
    ELSE Fail(Raised("AttributeError", "object has no attribute {name}", 0, name, None))

\* fix.py lines 20-21: the connection of fix_invalid_geom itself.
FixConnect ==
    /\ pc = "fix: connect"
    /\ conn' = Append(conn, "open")
    /\ cursor' = layers
    /\ pc' = "fix: layers"
    /\ UNCHANGED <<call, outcome, file, layers, columns, csvVars, gsVars, batchVars, formVars>>

\* fix.py lines 22-32: the updates of one layer, which read layer.geom_col;
\* after the last layer, commit and close.
FixLayer ==
    /\ pc = "fix: layers"
    /\ IF cursor = <<>>
       THEN /\ conn' = <<conn[1], "closed">>
            /\ pc' = "returned"
            /\ outcome' = Ok(PyNone)
            /\ UNCHANGED cursor
       ELSE LET geom == GetAttr(Head(cursor), "geom_col")
            IN  IF geom.ok
                THEN /\ cursor' = Tail(cursor)
                     /\ UNCHANGED <<pc, outcome, conn>>
                ELSE /\ outcome' = geom
                     /\ pc' = "raised"
                     /\ UNCHANGED <<cursor, conn>>
    /\ UNCHANGED <<call, file, layers, columns, csvVars, gsVars, batchVars, formVars>>

NextGpkg ==
    \/ Connect
    \/ ExecuteLayerQuery
    \/ FetchLayer
    \/ ExecuteTableInfo
    \/ LookupGeometryColumn
    \/ CountInvalid
    \/ Finally
    \/ FixConnect
    \/ FixLayer

SpecGpkg == InitGpkg /\ [][NextGpkg]_vars

(***************************************************************************)
(* geoserver.py: check_code, GeoServer.ingest_store, fix_store_data,       *)
(* list_styles, set_default_style.                                         *)
(***************************************************************************)

\* HTTPStatus.OK, CREATED, ACCEPTED, and the status codes a response has.
OkCodes == {200, 201, 202}
StatusCodes == OkCodes \cup {204, 500}

\* self.workspace and self.base_url, for the host "h" without HTTPS.
Workspace == "w"
BaseUrl == "http://h/geoserver/rest"

GeoServerError(message) == Raised("GeoServerError", message, 0, None, None)

\* Lines 40-42.
check_code(r) ==
    IF r.status_code \notin OkCodes
    THEN Fail(GeoServerError("Unexpected status from GeoServer: {r.status_code}"))
    ELSE Ok(PyNone)

Request(method, url) == [method |-> method, url |-> url]

\* Lines 130-139: ext, endpoint, store_name and url of ingest_store.
UploadTarget(name, data_type) ==
    LET tiles == data_type = "tiles"
        ext == IF tiles THEN "geopackage (mosaic)" ELSE "gpkg"
        endpoint == IF tiles THEN "coveragestores" ELSE "datastores"
        store_name == IF tiles THEN name \o "_" \o data_type ELSE name
    IN  [endpoint |-> endpoint,
         store_name |-> store_name,
         url |-> BaseUrl \o "/workspaces/" \o Workspace \o "/" \o endpoint \o "/"
                    \o store_name \o "/file." \o ext]

\* Line 154: url of fix_store_data.
StoreUrl(name) == BaseUrl \o "/workspaces/" \o Workspace \o "/datastores/" \o name

\* Line 158 and line 165.
PathSuffix(name) == "data/" \o Workspace \o "/" \o name \o "/" \o name \o ".gpkg"
NewDbPath(name) == "file:" \o PathSuffix(name)

\* str.endswith.
EndsWith(text, suffix) ==
    /\ Len(text) >= Len(suffix)
    /\ SubSeq(text, Len(text) - Len(suffix) + 1, Len(text)) = suffix

\* A connection parameter {"@key": key, "$": value}, one without "@key",
\* one without "$".
ConnParam(key, value) == ("@key" :> key) @@ ("$" :> value)
ConnParamNoKey(value) == ("$" :> value)
ConnParamNoValue(key) == ("@key" :> key)

\* The lists of connection parameters the server may hold for a store.
EntryLists(name) ==
    LET type == ConnParam("dbtype", "geopkg")
        abs == ConnParam("database", "/srv/" \o PathSuffix(name))
        abs2 == ConnParam("database", "/opt/" \o PathSuffix(name))
        fixed == ConnParam("database", NewDbPath(name))
        other == ConnParam("database", "/srv/data/w/x/x.gpkg")
    IN  {<<>>, <<type>>, <<type, abs>>, <<abs, type>>, <<other, abs, abs2>>,
         <<fixed>>, <<other>>, <<type, other>>,
         <<ConnParamNoKey("geopkg"), abs>>, <<abs, ConnParamNoKey("geopkg")>>,
         <<ConnParamNoValue("database"), abs>>}

\* The bodies get_resp.json() may hold.
Metadata(name) ==
    {[dataStore |-> [name |-> name, connectionParameters |-> [entry |-> es]]] :
        es \in EntryLists(name)}
    \cup
    {[error |-> "no such store"],
     [dataStore |-> [name |-> name]],
     [dataStore |-> [name |-> name, connectionParameters |-> [other |-> ""]]]}

\* A slip: the first "database" entry is taken, whatever its path.
ScanEntriesAnyDatabase(entries, i, suffix) ==
    LET found == {j \in 1..Len(entries) :
                    "@key" \in DOMAIN entries[j] /\ entries[j]["@key"] = "database"}
    IN  IF found = {} THEN [kind |-> "not found", index |-> 0]
        ELSE [kind |-> "found", index |-> CHOOSE j \in found : \A k \in found : j <= k]

\* Lines 162-170: the loop over the entries from the i-th on; it ends with
\* the index of the entry rewritten, with none, or with a KeyError.
RECURSIVE ScanEntries(_, _, _)
ScanEntries(entries, i, suffix) ==
    IF i > Len(entries) THEN [kind |-> "not found", index |-> 0]
    ELSE LET conn_param == entries[i]
         IN  IF "@key" \notin DOMAIN conn_param THEN [kind |-> "KeyError", index |-> i]
             ELSE IF conn_param["@key"] # "database" THEN ScanEntries(entries, i + 1, suffix)
             ELSE IF "$" \notin DOMAIN conn_param THEN [kind |-> "KeyError", index |-> i]
             ELSE IF EndsWith(conn_param["$"], suffix) THEN [kind |-> "found", index |-> i]
             ELSE ScanEntries(entries, i + 1, suffix)

\* Lines 161-172: the try around the loop.
ScanData(d, suffix) ==
    IF "dataStore" \notin DOMAIN d THEN [kind |-> "KeyError", index |-> 0]
    ELSE IF "connectionParameters" \notin DOMAIN d.dataStore
    THEN [kind |-> "KeyError", index |-> 0]
    ELSE IF "entry" \notin DOMAIN d.dataStore.connectionParameters
    THEN [kind |-> "KeyError", index |-> 0]
    ELSE ScanEntries(d.dataStore.connectionParameters.entry, 1, suffix)

\* Line 168: data["dataStore"]["connectionParameters"]["entry"][i]["$"] = v.
SetEntryValue(d, i, v) ==
    [d EXCEPT !.dataStore.connectionParameters.entry[i] = ("$" :> v) @@ @]

\* The name and the data type ingest_store is called with.
LayerName == IF call.fn = "batch" THEN info.table_name ELSE call.name
LayerType == IF call.fn = "batch" THEN info.data_type ELSE call.data_type

\* batch.py line 60: the exceptions the importer catches.
CaughtClasses == {"GeoPackageError", "GeoServerError"}

\* A slip: the importer reports the error of a layer and goes on with the
\* next one.
RaiseAndGoOn(e) ==
    /\ outcome' = Fail(e)
    /\ IF call.fn = "batch"
       THEN /\ pc' = IF e.cls \in CaughtClasses THEN "layers" ELSE "exit"
            /\ exit_status' = IF e.cls \in CaughtClasses THEN exit_status ELSE 1
       ELSE /\ pc' = "raised"
            /\ UNCHANGED exit_status

\* The exception e leaves the method: it reaches the caller or, in the
\* importer, the except of line 60 (the error is printed and the program
\* ends) or the top level (traceback, exit status 1).
Raise(e) ==
    /\ outcome' = Fail(e)
    /\ IF call.fn = "batch"
       THEN /\ pc' = "exit"
            /\ exit_status' = IF e.cls \in CaughtClasses THEN 0 ELSE 1
       ELSE /\ pc' = "raised"
            /\ UNCHANGED exit_status

\* ingest_store returns.
IngestReturns ==
    /\ pc' = IF call.fn = "batch" THEN "get_layer_image" ELSE "returned"
    /\ UNCHANGED <<outcome, exit_status>>

\* A slip: the metadata is fixed whatever the status of the upload.
IngestStoreUnchecked ==
    /\ pc = "ingest_store"
    /\ \E status \in StatusCodes :
          LET target == UploadTarget(LayerName, LayerType)
          IN  /\ requests' = Append(requests, Request("PUT", target.url))
              /\ resp' = [status_code |-> status]
              /\ IF target.endpoint = "datastores"
                 THEN pc' = "fix_store_data" /\ UNCHANGED <<outcome, exit_status>>
                 ELSE IngestReturns
    /\ UNCHANGED <<call, get_resp, json_data, files, infos, info, style,
                   csvVars, gpkgVars, formVars>>

\* Lines 128-145: the upload, up to the call of fix_store_data.
IngestStore ==
    /\ pc = "ingest_store"
    /\ \E status \in StatusCodes :
          LET target == UploadTarget(LayerName, LayerType)
          IN  /\ requests' = Append(requests, Request("PUT", target.url))
              /\ resp' = [status_code |-> status]
              /\ IF ~check_code(resp').ok THEN Raise(check_code(resp').err)
                 ELSE IF target.endpoint = "datastores"
                 THEN pc' = "fix_store_data" /\ UNCHANGED <<outcome, exit_status>>
                 ELSE IngestReturns
    /\ UNCHANGED <<call, get_resp, json_data, files, infos, info, style,
                   csvVars, gpkgVars, formVars>>

\* Lines 153-159: the metadata of the store is fetched.
FixStoreDataGet ==
    /\ pc = "fix_store_data"
    /\ requests' = Append(requests, Request("GET", StoreUrl(LayerName)))
    /\ \E status \in StatusCodes :
          /\ resp' = [status_code |-> status]
          /\ IF ~check_code(resp').ok
             THEN /\ Raise(check_code(resp').err)
                  /\ UNCHANGED <<get_resp, json_data>>
             ELSE /\ get_resp' \in Metadata(LayerName)
                  /\ json_data' = get_resp'
                  /\ pc' = "fix_store_data: entries"
                  /\ UNCHANGED <<outcome, exit_status>>
    /\ UNCHANGED <<call, files, infos, info, style, csvVars, gpkgVars, formVars>>

\* Lines 160-175: the database entry is looked for and rewritten.
FixStoreDataEntries ==
    /\ pc = "fix_store_data: entries"
    /\ LET found == ScanData(json_data, PathSuffix(LayerName))
       IN  IF found.kind = "KeyError"
           THEN /\ Raise(GeoServerError("Unable to fetch database connection parameter from datastore metadata"))
                /\ UNCHANGED json_data
           ELSE IF found.kind = "not found"
           THEN /\ Raise(GeoServerError("Unable to find database connection parameter with expected suffix"))
                /\ UNCHANGED json_data
           ELSE /\ json_data' = SetEntryValue(json_data, found.index, NewDbPath(LayerName))
                /\ pc' = "fix_store_data: put"
                /\ UNCHANGED <<outcome, exit_status>>
    /\ UNCHANGED <<call, requests, resp, get_resp, files, infos, info, style,
                   csvVars, gpkgVars, formVars>>

\* Lines 177-178: the metadata is sent back; in the importer the locals are
\* gone on return.
FixStoreDataPut ==
    /\ pc = "fix_store_data: put"
    /\ requests' = Append(requests, Request("PUT", StoreUrl(LayerName)))
    /\ \E status \in StatusCodes :
          /\ resp' = [status_code |-> status]
          /\ IF ~check_code(resp').ok
             THEN /\ Raise(check_code(resp').err)
                  /\ UNCHANGED <<get_resp, json_data>>
             ELSE /\ IngestReturns
                  /\ get_resp' = IF call.fn = "batch" THEN NoJson ELSE get_resp
                  /\ json_data' = IF call.fn = "batch" THEN NoJson ELSE json_data
    /\ UNCHANGED <<call, files, infos, info, style, csvVars, gpkgVars, formVars>>

\* The names and the data types ingest_store is called with.
StoreNames == {"roads", "relief"}
DataTypes == {"features", "attributes", "tiles"}

\* A call of GeoServer.ingest_store alone.
InitIngest ==
    /\ call \in [fn : {"ingest_store"}, name : StoreNames, data_type : DataTypes]
    /\ outcome = NotCalled
    /\ pc = "ingest_store"
    /\ CsvIdle
    /\ GpkgIdle
    /\ GsIdle
    /\ BatchIdle
    /\ FormIdle

NextIngest ==
    \/ IngestStore
    \/ FixStoreDataGet
    \/ FixStoreDataEntries
    \/ FixStoreDataPut

SpecIngest == InitIngest /\ [][NextIngest]_vars

(***************************************************************************)
(* batch.py: the importer of GeoPackage files into GeoServer.              *)
(***************************************************************************)

MaxFiles == 2

\* if x: of Python, for None and for a str.
Truthy(x) == x \notin {None, ""}

\* gpkg_utils.py lines 106-131: what get_layer_info(filename) returns or
\* raises for the file f.
get_layer_info(f) ==
    IF f.kind = "unopenable"
    THEN Fail(OperationalError("unable to open database file"))
    ELSE IF f.kind \in {"not a database", "sqlite"}
    THEN Fail(GeoPackageError)
    ELSE LET joined == SelectSeq(f.contents, LAMBDA row : row.organization # None)
         IN  Ok([i \in 1..Len(joined) |-> GPLayerInfo(joined[i])])

\* The files named on the command line, at least one (nargs='+').
BatchFiles ==
    {FileOf("unopenable", <<>>, {}),
     FileOf("not a database", <<>>, {}),
     FileOf("gpkg", <<>>, {}),
     FileOf("gpkg", <<FeaturesRow>>, {"invalid_geom"}),
     FileOf("gpkg", <<AttributesRow>>, {}),
     FileOf("gpkg", <<FeaturesRow, TilesRow>>, {"invalid_geom"})}

FileLists == UNION {[1..n -> BatchFiles] : n \in 1..MaxFiles}

\* The values of args.style: None without --style.
StyleArgs == {None, "", "point", "nope"}

\* geoserver.py lines 26-28 and 99: a style as list_styles returns it.
Style(name) == [name |-> name, href |-> BaseUrl \o "/styles/" \o name \o ".json"]

\* The lists of styles the server has.
StyleLists == {<<>>, <<Style("point")>>, <<Style("line"), Style("point")>>}

\* geoserver.py line 113.
LayerUrl(layer_name) ==
    BaseUrl \o "/workspaces/" \o Workspace \o "/layers/" \o layer_name

\* Lines 38-41: the first style of the list with the name wanted, or no style.
RECURSIVE FindStyle(_, _)
FindStyle(styles, name) ==
    IF styles = <<>> THEN NoStyle
    ELSE IF Head(styles).name = name THEN Head(styles)
    ELSE FindStyle(Tail(styles), name)

InitBatch ==
    /\ call \in [fn : {"batch"}, files : FileLists, style : StyleArgs]
    /\ files = call.files
    /\ infos = <<>>
    /\ info = None
    /\ style = NoStyle
    /\ exit_status = None
    /\ outcome = NotCalled
    /\ pc = "style"
    /\ CsvIdle
    /\ GpkgIdle
    /\ GsIdle
    /\ FormIdle

\* A slip: a style that is not found is passed over and the files are
\* imported without one.
BatchStyleNotRequired ==
    /\ pc = "style"
    /\ IF ~Truthy(call.style)
       THEN /\ pc' = "files"
            /\ UNCHANGED <<requests, resp, get_resp, style, outcome, exit_status>>
       ELSE /\ requests' = Append(requests, Request("GET", BaseUrl \o "/styles"))
            /\ \E status \in StatusCodes :
                  /\ resp' = [status_code |-> status]
                  /\ IF ~check_code(resp').ok
                     THEN /\ outcome' = Fail(check_code(resp').err)
                          /\ pc' = "exit"
                          /\ exit_status' = 1
                          /\ UNCHANGED <<get_resp, style>>
                     ELSE /\ \E listed \in StyleLists :
                                /\ get_resp' = [styles |-> [style |-> listed]]
                                /\ style' = FindStyle(listed, call.style)
                          /\ pc' = "files"
                          /\ UNCHANGED <<outcome, exit_status>>
    /\ UNCHANGED <<call, json_data, files, infos, info, csvVars, gpkgVars, formVars>>

\* Lines 36-44, with list_styles (geoserver.py lines 96-99), which is
\* called outside the try: its GeoServerError ends the program with a
\* traceback.
BatchStyle ==
    /\ pc = "style"
    /\ IF ~Truthy(call.style)
       THEN /\ pc' = "files"
            /\ UNCHANGED <<requests, resp, get_resp, style, outcome, exit_status>>
       ELSE /\ requests' = Append(requests, Request("GET", BaseUrl \o "/styles"))
            /\ \E status \in StatusCodes :
                  /\ resp' = [status_code |-> status]
                  /\ IF ~check_code(resp').ok
                     THEN /\ outcome' = Fail(check_code(resp').err)
                          /\ pc' = "exit"
                          /\ exit_status' = 1
                          /\ UNCHANGED <<get_resp, style>>
                     ELSE /\ \E listed \in StyleLists :
                                /\ get_resp' = [styles |-> [style |-> listed]]
                                /\ style' = FindStyle(listed, call.style)
                          /\ IF style' = NoStyle
                             THEN pc' = "exit" /\ exit_status' = 1
                             ELSE pc' = "files" /\ UNCHANGED exit_status
                          /\ UNCHANGED outcome
    /\ UNCHANGED <<call, json_data, files, infos, info, csvVars, gpkgVars, formVars>>

\* Lines 47-48: the next file and its layers; after the last file the
\* program ends.
NextFile ==
    /\ pc = "files"
    /\ IF files = <<>>
       THEN /\ pc' = "exit"
            /\ exit_status' = 0
            /\ UNCHANGED <<files, infos, outcome>>
       ELSE /\ files' = Tail(files)
            /\ LET r == get_layer_info(Head(files))
               IN  IF r.ok
                   THEN /\ infos' = r.value
                        /\ pc' = "layers"
                        /\ UNCHANGED <<outcome, exit_status>>
                   ELSE /\ Raise(r.err)
                        /\ UNCHANGED infos
    /\ UNCHANGED <<call, info, style, csvVars, gpkgVars, gsVars, formVars>>

\* Line 49: the next layer of the file.
NextLayer ==
    /\ pc = "layers"
    /\ IF infos = <<>>
       THEN /\ pc' = "files"
            /\ UNCHANGED <<infos, info>>
       ELSE /\ info' = Head(infos)
            /\ infos' = Tail(infos)
            /\ pc' = "ingest_store"
    /\ UNCHANGED <<call, outcome, files, style, exit_status, csvVars, gpkgVars, gsVars,
                   formVars>>

ZeroDivisionError == Raised("ZeroDivisionError", "float division by zero", 0, None, None)

\* Lines 52-55 with geoserver.py lines 45-48 and 125-126: the url of the
\* image is computed from the bounds; nothing is sent.
GetLayerImage ==
    /\ pc = "get_layer_image"
    /\ IF info.bounds[3] - info.bounds[1] = 0
       THEN Raise(ZeroDivisionError)
       ELSE /\ pc' = IF style # NoStyle THEN "set_default_style" ELSE "layers"
            /\ UNCHANGED <<outcome, exit_status>>
    /\ UNCHANGED <<call, files, infos, info, style, csvVars, gpkgVars, gsVars, formVars>>

\* geoserver.py lines 112-116: the layer is fetched and the style put in.
SetDefaultStyleGet ==
    /\ pc = "set_default_style"
    /\ requests' = Append(requests, Request("GET", LayerUrl(info.table_name)))
    /\ \E status \in StatusCodes :
          /\ resp' = [status_code |-> status]
          /\ IF ~check_code(resp').ok
             THEN /\ Raise(check_code(resp').err)
                  /\ UNCHANGED json_data
             ELSE \E has_layer \in BOOLEAN :
                     IF ~has_layer
                     THEN /\ Raise(KeyError("layer").err)
                          /\ UNCHANGED json_data
                     ELSE /\ json_data' = [layer |-> [defaultStyle |-> style]]
                          /\ pc' = "set_default_style: put"
                          /\ UNCHANGED <<outcome, exit_status>>
    /\ UNCHANGED <<call, get_resp, files, infos, info, style, csvVars, gpkgVars, formVars>>

\* geoserver.py lines 117-119: the layer is sent back.
SetDefaultStylePut ==
    /\ pc = "set_default_style: put"
    /\ requests' = Append(requests, Request("PUT", LayerUrl(info.table_name)))
    /\ json_data' = NoJson
    /\ \E status \in StatusCodes :
          /\ resp' = [status_code |-> status]
          /\ IF ~check_code(resp').ok
             THEN Raise(check_code(resp').err)
             ELSE /\ pc' = "layers"
                  /\ UNCHANGED <<outcome, exit_status>>
    /\ UNCHANGED <<call, get_resp, files, infos, info, style, csvVars, gpkgVars, formVars>>

NextBatch ==
    \/ BatchStyle
    \/ NextFile
    \/ NextLayer
    \/ IngestStore
    \/ FixStoreDataGet
    \/ FixStoreDataEntries
    \/ FixStoreDataPut
    \/ GetLayerImage
    \/ SetDefaultStyleGet
    \/ SetDefaultStylePut

SpecBatch == InitBatch /\ [][NextBatch]_vars

(***************************************************************************)
(* csv2gpkg.py: the form that turns an uploaded CSV file into a            *)
(* GeoPackage.                                                             *)
(***************************************************************************)

MaxFormRows == 2

\* The field names of the files uploaded; a name can stand twice.
FormHeaders ==
    {<<"lat", "lon">>, <<"name", "lat", "lon">>, <<"lat", "lon", "lat">>, <<"y", "x", "lat">>}

\* The types the select boxes are set to, and the cells of the rows.
FormTypes == {"TEXT", "INT", "LATITUDE", "LONGITUDE"}
FormCells == {"", "1.5", "x"}

\* The keys of a dict filled in the order of hs: each name once, where it
\* stands first.
Keys(hs) == SelectSeq([i \in 1..Len(hs) |-> IF \E j \in 1..(i - 1) : hs[j] = hs[i]
                                                THEN None ELSE hs[i]],
                      LAMBDA h : h # None)

\* The name of the file written, from the slug of the name of the upload.
OutName == "upload.gpkg"

InitForm ==
    /\ headers \in FormHeaders
    /\ init_types = <<>>
    /\ geom_col_spec = StrSpec("")
    /\ crs = ""
    /\ yielded = 0
    /\ skipped = 0
    /\ data = <<>>
    /\ result = NoResult
    /\ err = NoError
    /\ call = [fn |-> "csv2gpkg"]
    /\ outcome = NotCalled
    /\ pc = "assign"
    /\ GpkgIdle
    /\ GsIdle
    /\ BatchIdle
    /\ FormIdle

\* Lines 80-94: every name starts as TEXT and then gets the type its select
\* box holds (the box opens on LATITUDE or LONGITUDE for some names, its
\* value is the user's); init_types is keyed by name, so of two columns of
\* one name the later box decides.
FormAssign ==
    /\ pc = "assign"
    /\ \E selected \in [1..Len(headers) -> FormTypes] :
          init_types' =
              [h \in Range(headers) |->
                  selected[CHOOSE i \in 1..Len(headers) :
                              /\ headers[i] = h
                              /\ \A j \in 1..Len(headers) : headers[j] = h => j <= i]]
    /\ pc' = "validate"
    /\ UNCHANGED <<serviceVars, call, outcome, headers, geom_col_spec, crs, yielded,
                   skipped, data, result, err>>

\* A slip: one latitude and one longitude column at least are asked for,
\* and the first of each is used.
FormValidateAtLeastOne ==
    /\ pc = "validate"
    /\ lat_cols' = SelectSeq(Keys(headers), LAMBDA h : init_types[h] = "LATITUDE")
    /\ lon_cols' = SelectSeq(Keys(headers), LAMBDA h : init_types[h] = "LONGITUDE")
    /\ IF lat_cols' = <<>> \/ lon_cols' = <<>>
       THEN /\ st_errors' = Append(st_errors, "No latitude and/or longitude column found")
            /\ pc' = "stopped"
       ELSE /\ pc' = "button"
            /\ UNCHANGED st_errors
    /\ UNCHANGED <<gpkgVars, gsVars, batchVars, rows_read, written, call, outcome, headers,
                   init_types, geom_col_spec, crs, yielded, skipped, data, result, err>>

\* Lines 96-113.
FormValidate ==
    /\ pc = "validate"
    /\ lat_cols' = SelectSeq(Keys(headers), LAMBDA h : init_types[h] = "LATITUDE")
    /\ lon_cols' = SelectSeq(Keys(headers), LAMBDA h : init_types[h] = "LONGITUDE")
    /\ IF lat_cols' = <<>> \/ lon_cols' = <<>>
       THEN /\ st_errors' = Append(st_errors, "No latitude and/or longitude column found")
            /\ pc' = "stopped"
       ELSE IF Len(lat_cols') > 1
       THEN /\ st_errors' = Append(st_errors, "Too many latitude columns assigned")
            /\ pc' = "stopped"
       ELSE IF Len(lon_cols') > 1
       THEN /\ st_errors' = Append(st_errors, "Too many longitude columns assigned")
            /\ pc' = "stopped"
       ELSE /\ pc' = "button"
            /\ UNCHANGED st_errors
    /\ UNCHANGED <<gpkgVars, gsVars, batchVars, rows_read, written, call, outcome, headers,
                   init_types, geom_col_spec, crs, yielded, skipped, data, result, err>>

\* Lines 115-119: the button; pressed, data gets a list for "geometry" and
\* for every column but the two of the coordinates.
FormButton ==
    /\ pc = "button"
    /\ \E pressed \in BOOLEAN :
          IF pressed
          THEN /\ data' = [k \in {"geometry"} \cup (Range(headers) \ {lat_cols[1], lon_cols[1]})
                              |-> <<>>]
               /\ pc' = "rows"
          ELSE /\ pc' = "idle"
               /\ UNCHANGED data
    /\ UNCHANGED <<serviceVars, call, outcome, headers, init_types, geom_col_spec, crs,
                   yielded, skipped, result, err>>

\* Lines 133-143: the other columns of a row, up to the first value that
\* cannot be coerced.
RECURSIVE FormOtherColumns(_, _, _)
FormOtherColumns(keys, row, d) ==
    IF keys = <<>> THEN [data |-> d, err |-> NoError, key |-> None]
    ELSE LET key == Head(keys)
             c == coerce_value(key, row[key], init_types[key])
         IN  IF key \in {lat_cols[1], lon_cols[1]} THEN FormOtherColumns(Tail(keys), row, d)
             ELSE IF ~c.ok THEN [data |-> d, err |-> c.err, key |-> key]
             ELSE FormOtherColumns(Tail(keys), row, [d EXCEPT ![key] = Append(@, c.value)])

\* Lines 124-143: one turn of the loop over the reader. A coordinate that
\* is no number raises ValueError from float, outside the try; a value that
\* cannot be coerced is reported and the script stops.
FormRow ==
    /\ pc = "rows"
    /\ rows_read < MaxFormRows
    /\ rows_read' = rows_read + 1
    /\ \E row \in [Range(headers) -> FormCells] :
          LET x == float(row[lon_cols[1]])
              y == float(row[lat_cols[1]])
          IN  IF row[lon_cols[1]] = "" \/ row[lat_cols[1]] = ""
              THEN /\ skipped' = skipped + 1
                   /\ UNCHANGED <<data, err, st_errors, pc>>
              ELSE IF ~x.ok \/ ~y.ok
              THEN /\ err' = IF ~x.ok THEN x.err ELSE y.err
                   /\ pc' = "raised"
                   /\ UNCHANGED <<data, skipped, st_errors>>
              ELSE LET o == FormOtherColumns(
                                Keys(headers), row,
                                [data EXCEPT !["geometry"] =
                                    Append(@, Point(x.value.v, y.value.v))])
                   IN  /\ data' = o.data
                       /\ IF o.err = NoError
                          THEN UNCHANGED <<err, st_errors, pc>>
                          ELSE IF o.err.cls \in ValueErrorClasses
                          THEN /\ st_errors' =
                                     Append(st_errors,
                                            "Error converting column '{key} value '{value}' to type {col_type.name} at line {row_num + 1}")
                               /\ pc' = "stopped"
                               /\ UNCHANGED err
                          ELSE /\ err' = o.err
                               /\ pc' = "raised"
                               /\ UNCHANGED st_errors
                       /\ UNCHANGED skipped
    /\ UNCHANGED <<gpkgVars, gsVars, batchVars, lat_cols, lon_cols, written, call, outcome,
                   headers, init_types, geom_col_spec, crs, yielded, result>>

\* Lines 145-156: the reader is at its end; the frame is built with the crs
\* "EPSG:4326" and written to the file.
FormWrite ==
    /\ pc = "rows"
    /\ crs' = "EPSG:4326"
    /\ LET gdf == GeoDataFrame(<<"geometry">> \o
                                  SelectSeq(Keys(headers),
                                            LAMBDA h : h \notin {lat_cols[1], lon_cols[1]}),
                               data, crs')
       IN  IF gdf.ok
           THEN /\ result' = [returned |-> TRUE, gdf |-> gdf.value, skipped |-> skipped]
                /\ written' = written \cup {OutName}
                /\ pc' = "done"
                /\ UNCHANGED err
           ELSE /\ err' = gdf.err
                /\ pc' = "raised"
                /\ UNCHANGED <<result, written>>
    /\ UNCHANGED <<gpkgVars, gsVars, batchVars, lat_cols, lon_cols, st_errors, rows_read,
                   call, outcome, headers, init_types, geom_col_spec, yielded, skipped, data>>

NextForm ==
    \/ FormAssign
    \/ FormValidate
    \/ FormButton
    \/ FormRow
    \/ FormWrite

SpecForm == InitForm /\ [][NextForm]_vars

(***************************************************************************)
(* The properties checked.                                                 *)
(***************************************************************************)

\* A cell without text: the empty string, or the cell a short line lacks.
IsEmptyCell(value) == value \in {"", None}

\* The call runs in lat/lon mode, or in well-known text mode.
LatLonMode == geom_col_spec.tuple
WktMode == ~geom_col_spec.tuple

\* Which of the cells drawn are well-known text, and which float literals.
is_wkt == [value \in AllCells |-> value # None /\ IsWkt(value)]
is_float_literal == [value \in AllCells |-> value # None /\ IsFloatLiteral(value)]

\* The step skipped its row: the count grows by one, nothing else changes.
RowSkipped ==
    /\ skipped' = skipped + 1
    /\ data' = data
    /\ pc' = "loop"
    /\ err' = NoError

\* The step appended its row's geometry.
RowContributed ==
    /\ skipped' = skipped
    /\ pc' = "loop"
    /\ Len(data'["geometry"]) > Len(data["geometry"])

\* The step raised: the call ends without a result.
RowAborted ==
    /\ skipped' = skipped
    /\ pc' = "raised"
    /\ err' # NoError

WktTemplate == "Error parsing WKT geometry in row {row_num + 1}: '{row[geom_col]}'"
FloatTemplate == "could not convert string to float: {value}"
IntTemplate == "invalid literal for int() with base 10: {value}"
DatetimeTemplates == {"time data {value} doesn't match format", "day is out of range for month"}
UnknownTypeTemplate == "Unknown data type for col '{key}': {dtype}..."

\* The message tells nothing of where the failure is.
NamesNothing(e) == e.row = 0 /\ e.col = None /\ e.value = None

\* C1: when csv_to_gdf returns, the rows of the table plus the skip count
\* are the rows the reader yielded.
C1_RowsPlusSkipped ==
    pc = "returned" => result.gdf.rows + result.skipped = yielded

\* C2: between rows, every accumulator (the geometry's and each
\* attribute's) holds one entry per row that was not skipped.
C2_AccumulatorsAligned ==
    pc = "loop" => \A k \in DOMAIN data : Len(data[k]) = yielded - skipped

\* C3: in well-known text mode a row with an empty geometry cell is
\* skipped: the skip count grows by one, no error, no accumulator changes.
C3_WktEmptySkipped ==
    [][\A row \in rows_of[headers] :
        (WktMode /\ row[geom_col_spec.names[1]] = "" /\ ProcessRow(row))
            => RowSkipped]_vars

C3_Witness ==
    /\ WktMode
    /\ pc = "loop"
    /\ skipped >= 1
    /\ Len(data["geometry"]) >= 1

\* C4: in lat/lon mode a row is skipped exactly when its latitude or its
\* longitude is empty; any other row contributes or aborts the call.
C4_LatLonSkippedIffEmpty ==
    [][\A row \in rows_of[headers] :
        (LatLonMode /\ ProcessRow(row)) =>
            LET empty == \/ IsEmptyCell(row[geom_col_spec.names[1]])
                         \/ IsEmptyCell(row[geom_col_spec.names[2]])
            IN  /\ empty <=> RowSkipped
                /\ ~empty => (RowContributed \/ RowAborted)]_vars

C4_Witness ==
    /\ LatLonMode
    /\ pc = "loop"
    /\ skipped = 1
    /\ yielded = 2
    /\ Len(data["geometry"]) >= 1

\* C5: in well-known text mode a row whose geometry text the parser
\* rejects aborts the call with a ValueError that names the row's 1-based
\* number and the text; the row is not skipped.
C5_BadWktAborts ==
    [][\A row \in rows_of[headers] :
        (/\ WktMode
         /\ row[geom_col_spec.names[1]] # ""
         /\ ~is_wkt[row[geom_col_spec.names[1]]]
         /\ ProcessRow(row))
            => /\ RowAborted
               /\ data' = data
               /\ err'.cls = "ValueError"
               /\ err'.row = yielded + 1
               /\ err'.value = row[geom_col_spec.names[1]]]_vars

C5_Witness ==
    /\ WktMode
    /\ pc = "raised"
    /\ err.template = WktTemplate
    /\ err.row = 2
    /\ err.value = "NOT A GEOM"

\* C6: a value that cannot be coerced to its column's type aborts the call
\* with an error that names the column, the value and the 1-based row.
C6_CoercionErrorNamesAll ==
    (/\ pc = "raised"
     /\ err.line = 176
     /\ err.template \in {IntTemplate, FloatTemplate} \cup DatetimeTemplates)
        => /\ err.col # None
           /\ err.value # None
           /\ err.row = yielded

\* C7: malformed geometry text, a latitude or longitude that is no number,
\* a malformed scalar and a geometry type tag in coercion all reach the
\* caller as a ValueError whose message names the row, the column or the
\* value.
C7_FatalIsValueError ==
    (/\ pc = "raised"
     /\ err.template \in {WktTemplate, IntTemplate, FloatTemplate, UnknownTypeTemplate}
                            \cup DatetimeTemplates)
        => /\ err.cls \in ValueErrorClasses
           /\ ~NamesNothing(err)

\* C8: once a row has raised, the call has returned nothing: no table and
\* no skip count, whatever was accumulated before.
C8_AllOrNothing ==
    err # NoError => (pc = "raised" /\ ~result.returned)

C8_Witness ==
    /\ pc = "raised"
    /\ ~result.returned
    /\ yielded = 2
    /\ Len(data["geometry"]) >= 1

\* C9: in lat/lon mode a row whose latitude and longitude both hold text,
\* one of them no number, aborts the call with float's ValueError; it is
\* not skipped.
C9_BadNumberAborts ==
    [][\A row \in rows_of[headers] :
        (/\ LatLonMode
         /\ ~IsEmptyCell(row[geom_col_spec.names[1]])
         /\ ~IsEmptyCell(row[geom_col_spec.names[2]])
         /\ \/ ~is_float_literal[row[geom_col_spec.names[1]]]
            \/ ~is_float_literal[row[geom_col_spec.names[2]]]
         /\ ProcessRow(row))
            => /\ RowAborted
               /\ data' = data
               /\ err'.cls = "ValueError"
               /\ err'.line = 169
               /\ err'.template = FloatTemplate
               /\ err'.value \in {row[geom_col_spec.names[1]], row[geom_col_spec.names[2]]}
               /\ ~is_float_literal[err'.value]]_vars

C9_Witness ==
    /\ LatLonMode
    /\ pc = "raised"
    /\ err.line = 169
    /\ err.template = FloatTemplate
    /\ err.value = "x"
    /\ skipped = 1

GeometryRoleTypes == {"LATITUDE", "LONGITUDE", "GEOMETRY"}

\* The columns typed LATITUDE, LONGITUDE or GEOMETRY that are not the
\* geometry source.
StrayGeometryColumns ==
    {h \in Range(headers) :
        /\ h \notin Range(geom_col_spec.names)
        /\ init_types[h] \in GeometryRoleTypes}

\* C10: coerce_value never returns a value for the tags LATITUDE, LONGITUDE
\* and GEOMETRY: with a column so typed that is not the geometry source, no
\* value is ever stored for it, and the first row that is not skipped
\* aborts the call.
C10_GeometryTagNeverCoerced ==
    StrayGeometryColumns # {} =>
        /\ \A h \in StrayGeometryColumns :
              \A i \in 1..Len(data[h]) : data[h][i].t = "geometry"
        /\ pc = "loop" => yielded = skipped
        /\ pc = "returned" => result.gdf.rows = 0

C10_Witness ==
    /\ StrayGeometryColumns # {}
    /\ pc = "raised"
    /\ err.template = UnknownTypeTemplate
    /\ err.col \in StrayGeometryColumns
    /\ skipped = 1

\* The headers that are not the geometry source, in header order.
AttributeHeaders ==
    SelectSeq(headers, LAMBDA h : h \notin Range(geom_col_spec.names))

\* C11: the columns of the table returned are one geometry column and,
\* besides it, exactly the headers that are not the geometry source: none
\* of these is dropped and no geometry source column is among them.
C11_ColumnsAreAttributeHeaders ==
    pc = "returned" =>
        LET cols == result.gdf.columns
        IN  /\ Len(cols) = 1 + Len(AttributeHeaders)
            /\ cols[1] = "geometry"
            /\ Range(SubSeq(cols, 2, Len(cols))) = Range(AttributeHeaders)

\* C12: when no row was skipped and no row raised, the call returns a table
\* with as many rows as the reader yielded, one column more than there are
\* headers outside the geometry source, and a skip count of 0.
C12_FullTableWhenAllRowsGood ==
    [][(pc = "loop" /\ skipped = 0 /\ Return) =>
          /\ pc' = "returned"
          /\ result'.gdf.rows = yielded
          /\ Len(result'.gdf.columns) = 1 + Len(AttributeHeaders)
          /\ result'.skipped = 0]_vars

\* C15: a row that contributes puts its own geometry and its own attribute
\* values at the end of every accumulator, at one and the same index, after
\* the entries of the rows before it, which stay as they were; the table
\* returned holds the accumulators as they are.
C15_RowsInInputOrder ==
    [][/\ \A row \in rows_of[headers] :
            (ProcessRow(row) /\ RowContributed) =>
                LET n == yielded - skipped
                IN  /\ \A k \in DOMAIN data :
                          /\ Len(data'[k]) = n + 1
                          /\ SubSeq(data'[k], 1, n) = data[k]
                    /\ data'["geometry"][n + 1] = RowGeometry(row, yielded).value
                    /\ \A h \in Range(AttributeHeaders) :
                          data'[h][n + 1] = coerced[h, row[h], init_types[h]].value
       /\ (Return /\ pc' = "returned") => result'.gdf.data = data]_vars

\* The decimal value of the cells drawn for a latitude or a longitude.
LatLonValues ==
    [value \in {"1.5", "-2"} |->
        IF value = "1.5" THEN [kind |-> "num", mant |-> 15, exp |-> -1]
        ELSE [kind |-> "num", mant |-> -2, exp |-> 0]]

\* C14: in lat/lon mode, with the specification (latitude column, longitude
\* column), the point of a row that contributes has the value of the
\* longitude column as its first coordinate and the value of the latitude
\* column as its second.
C14_LongitudeFirst ==
    [][\A row \in rows_of[headers] :
        (LatLonMode /\ ProcessRow(row) /\ RowContributed) =>
            LET point == data'["geometry"][Len(data["geometry"]) + 1]
                lat == row[geom_col_spec.names[1]]
                lon == row[geom_col_spec.names[2]]
            IN  /\ point.t = "geometry"
                /\ point.kind = "Point"
                /\ point.coords = << <<LatLonValues[lon], LatLonValues[lat]>> >>]_vars

C14_Witness ==
    /\ LatLonMode
    /\ pc = "loop"
    /\ "geometry" \notin Range(headers)
    /\ Len(data["geometry"]) = 2
    /\ data["geometry"][2].coords =
          << <<[kind |-> "num", mant |-> -2, exp |-> 0],
               [kind |-> "num", mant |-> 15, exp |-> -1]>> >>

\* C20: the table returned carries the crs the caller passed, whatever the
\* rows were, and also when every row was skipped.
C20_CrsCarried ==
    pc = "returned" => result.gdf.crs = crs

C20_Witness ==
    /\ pc = "returned"
    /\ crs = "EPSG:3857"
    /\ result.gdf.crs = "EPSG:3857"
    /\ result.gdf.rows = 0
    /\ result.skipped = 2

\* The step treated its row by the rules of well-known text mode: skipped
\* on an empty geometry cell, aborted with the parse error on text that is
\* no geometry, else the row went on to its other columns.
WktRulesApplied(row) ==
    LET cell == row[geom_col_spec.names[1]]
    IN  \/ cell = "" /\ RowSkipped
        \/ cell # "" /\ ~is_wkt[cell] /\ RowAborted /\ err'.template = WktTemplate
        \/ is_wkt[cell] /\ (RowContributed \/ (RowAborted /\ err'.line = 176))

\* The step treated its row by the rules of lat/lon mode: skipped when the
\* latitude or the longitude is empty, aborted by float on text that is no
\* number, else the row went on to its other columns.
LatLonRulesApplied(row) ==
    LET lat == row[geom_col_spec.names[1]]
        lon == row[geom_col_spec.names[2]]
    IN  \/ (IsEmptyCell(lat) \/ IsEmptyCell(lon)) /\ RowSkipped
        \/ /\ ~IsEmptyCell(lat) /\ ~IsEmptyCell(lon)
           /\ ~is_float_literal[lat] \/ ~is_float_literal[lon]
           /\ RowAborted /\ err'.line = 169 /\ err'.template = FloatTemplate
        \/ /\ is_float_literal[lat] /\ is_float_literal[lon]
           /\ RowContributed \/ (RowAborted /\ err'.line = 176)

\* C13: the shape of geom_col_spec alone decides the mode: with any single
\* string every row is treated by the rules of well-known text mode, with a
\* tuple of two names every row is treated by the rules of lat/lon mode.
C13_ModeByShape ==
    [][\A row \in rows_of[headers] :
        ProcessRow(row) =>
            IF geom_col_spec.tuple THEN LatLonRulesApplied(row)
            ELSE WktRulesApplied(row)]_vars

\* A call of coerce_value alone, for the type dtype, has returned or raised.
Coerced(dtype) == pc # "coerce_value" /\ call.dtype = dtype

\* C17: BOOLEAN coercion never fails; it returns True for every text that
\* is not empty, "false" and "0" among them, and False for the empty text
\* only.
C17_BooleanIsNonEmpty ==
    Coerced("BOOLEAN") =>
        /\ outcome.ok
        /\ outcome.value = PyBool(call.value # "")

C17_Witness ==
    /\ Coerced("BOOLEAN")
    /\ call.value = "false"
    /\ outcome = Ok(PyBool(TRUE))

\* The calendar dates and the times of the texts drawn that are written
\* YYYY-MM-DD, and YYYY-MM-DD HH:MM:SS.
DatesWritten ==
    [value \in {"2023-01-15"} |-> PyDate(2023, 1, 15)]
DateTimesWritten ==
    [value \in {"2023-01-15 10:30:00"} |-> PyTimestamp(2023, 1, 15, 10, 30, 0)]

\* C18: DATE coercion returns the calendar date of a text written
\* YYYY-MM-DD and fails for every other text, the empty text among them;
\* DATETIME likewise for YYYY-MM-DD HH:MM:SS.
C18_DateOrFailure ==
    /\ Coerced("DATE") =>
          IF call.value \in DOMAIN DatesWritten
          THEN outcome = Ok(DatesWritten[call.value])
          ELSE ~outcome.ok
    /\ Coerced("DATETIME") =>
          IF call.value \in DOMAIN DateTimesWritten
          THEN outcome = Ok(DateTimesWritten[call.value])
          ELSE ~outcome.ok

\* The integers of the texts drawn that are integer literals.
IntsWritten ==
    [value \in {"0", "7", "-12", "+3", " 42 ", "1_000", "007"} |->
        CASE value = "0" -> 0
          [] value = "7" -> 7
          [] value = "-12" -> -12
          [] value = "+3" -> 3
          [] value = " 42 " -> 42
          [] value = "1_000" -> 1000
          [] value = "007" -> 7]

\* C19: INT coercion returns the integer of an integer literal and fails
\* with a ValueError for every other text, the empty text among them; TEXT
\* coercion returns the text it was given.
C19_IntOrValueError ==
    /\ Coerced("INT") =>
          IF call.value \in DOMAIN IntsWritten
          THEN outcome = Ok(PyInt(IntsWritten[call.value]))
          ELSE /\ ~outcome.ok
               /\ outcome.err.cls \in ValueErrorClasses
    /\ Coerced("TEXT") => outcome = Ok(PyStr(call.value))

C19_Witness ==
    /\ Coerced("INT")
    /\ call.value = ""
    /\ ~outcome.ok
    /\ outcome.err.cls = "ValueError"

\* C21: csv_to_gdf leaves the arguments it was given as they are, the list
\* of headers and the mapping of types among them, and takes from the
\* reader at most one row in a step.
C21_ArgumentsUnchanged ==
    [][/\ headers' = headers
       /\ init_types' = init_types
       /\ geom_col_spec' = geom_col_spec
       /\ crs' = crs
       /\ yielded' \in {yielded, yielded + 1}]_vars

C21_Witness ==
    /\ pc = "returned"
    /\ yielded = 2
    /\ result.gdf.rows >= 1
    /\ Len(headers) = 3
    /\ DOMAIN init_types = Range(headers)

\* The geometry source of the row is empty.
GeometrySourceEmpty(row) ==
    IF geom_col_spec.tuple
    THEN \/ IsEmptyCell(row[geom_col_spec.names[1]])
         \/ IsEmptyCell(row[geom_col_spec.names[2]])
    ELSE row[geom_col_spec.names[1]] = ""

\* C23: a row whose geometry source is empty and which holds a value that
\* cannot be coerced to the type of its column is skipped and counted; no
\* value of it is coerced and the call is not aborted.
C23_SkippedRowNotCoerced ==
    [][\A row \in rows_of[headers] :
        (/\ GeometrySourceEmpty(row)
         /\ \E h \in Range(AttributeHeaders) : ~coerced[h, row[h], init_types[h]].ok
         /\ ProcessRow(row))
            => RowSkipped]_vars

\* Every row of the table holds a value that cannot be coerced, and two
\* rows were skipped.
C23_Witness ==
    /\ StrayGeometryColumns # {}
    /\ pc = "loop"
    /\ skipped = 2
    /\ err = NoError

\* C24: the row number in the error of a geometry text that does not parse
\* is the 1-based position of the row among all the rows the reader has
\* yielded, the skipped ones counted.
C24_RowNumberCountsSkipped ==
    (pc = "raised" /\ err.template = WktTemplate) => err.row = yielded

C24_Witness ==
    /\ pc = "raised"
    /\ err.template = WktTemplate
    /\ skipped = 1
    /\ err.row = 2

GpkgReaders == {"get_layer_info", "get_column_info", "check_invalid_geometry"}

\* The srs of the rows drawn, written "<organization>:<srs_id>".
SrsTexts == {"EPSG:4326", "NONE:0", "EPSG:3857"}

\* C22: every record of get_layer_info holds table_name, data_type,
\* identifier, description, an srs written "<organization>:<srs_id>" and
\* the name of the geometry column as geom_col, which fix_invalid_geom
\* reads for each layer it repairs.
C22_LayerRecordHasGeomCol ==
    /\ \A i \in 1..Len(layers) :
          /\ {"table_name", "data_type", "identifier", "description", "srs", "geom_col"}
                \subseteq DOMAIN layers[i]
          /\ layers[i].srs \in SrsTexts
    /\ (call.fn = "fix_invalid_geom" /\ pc = "raised")
          => outcome.err.cls # "AttributeError"

\* C30: get_layer_info, get_column_info and check_invalid_geometry leave no
\* connection open when they return or raise, and what they raise is
\* GeoPackageError, whatever the failure to read the file.
C30_ClosedAndGeoPackageError ==
    (call.fn \in GpkgReaders /\ pc \in {"returned", "raised"}) =>
        /\ \A i \in 1..Len(conn) : conn[i] = "closed"
        /\ pc = "raised" => outcome.err.cls = "GeoPackageError"

\* The url ingest_store uploads to, for the store of a layer.
UploadUrlOf(name, data_type) ==
    IF data_type = "tiles"
    THEN "http://h/geoserver/rest/workspaces/w/coveragestores/" \o name
            \o "_tiles/file.geopackage (mosaic)"
    ELSE "http://h/geoserver/rest/workspaces/w/datastores/" \o name \o "/file.gpkg"

\* C25: ingest_store uploads tiles to the coveragestores endpoint under
\* "<name>_tiles" and sends nothing more; any other data type it uploads to
\* the datastores endpoint under "<name>", and the first request of the
\* fix-up is sent only when the upload returned OK, CREATED or ACCEPTED.
\* On any other status GeoServerError is raised and nothing more is sent.
C25_UploadThenFixUp ==
    [][/\ requests'[1] = Request("PUT", UploadUrlOf(call.name, call.data_type))
       /\ call.data_type = "tiles" => Len(requests') = 1
       /\ (Len(requests) = 1 /\ Len(requests') = 2) =>
              /\ resp.status_code \in {200, 201, 202}
              /\ call.data_type # "tiles"
       /\ (Len(requests) = 0 /\ resp'.status_code \notin {200, 201, 202}) =>
              /\ pc' = "raised"
              /\ outcome'.err.cls = "GeoServerError"
       /\ pc = "raised" => requests' = requests]_vars

C25_Witness ==
    /\ call.fn = "ingest_store"
    /\ call.data_type = "features"
    /\ pc = "returned"
    /\ Len(requests) = 3
    /\ requests[2] = Request("GET", "http://h/geoserver/rest/workspaces/w/datastores/" \o call.name)

\* The list of connection parameters of the metadata d, <<>> when d has no
\* dataStore.connectionParameters.entry.
HasEntries(d) ==
    /\ "dataStore" \in DOMAIN d
    /\ "connectionParameters" \in DOMAIN d.dataStore
    /\ "entry" \in DOMAIN d.dataStore.connectionParameters

EntriesOf(d) == IF HasEntries(d) THEN d.dataStore.connectionParameters.entry ELSE <<>>

\* The indices of the "database" entries of d whose value ends with
\* "data/<workspace>/<name>/<name>.gpkg".
MatchingEntries(d, name) ==
    {i \in 1..Len(EntriesOf(d)) :
        LET c == EntriesOf(d)[i]
        IN  /\ "@key" \in DOMAIN c
            /\ c["@key"] = "database"
            /\ "$" \in DOMAIN c
            /\ EndsWith(c["$"], "data/w/" \o name \o "/" \o name \o ".gpkg")}

FirstMatching(d, name) ==
    CHOOSE i \in MatchingEntries(d, name) : \A j \in MatchingEntries(d, name) : i <= j

\* d lacks a key the search needs: dataStore, connectionParameters or
\* entry, or "@key" or the "$" of a "database" entry, in an entry before
\* the first that matches.
LacksExpectedKeys(d, name) ==
    \/ ~HasEntries(d)
    \/ \E i \in 1..Len(EntriesOf(d)) :
          /\ \A j \in MatchingEntries(d, name) : i < j
          /\ LET c == EntriesOf(d)[i]
             IN  \/ "@key" \notin DOMAIN c
                 \/ c["@key"] = "database" /\ "$" \notin DOMAIN c

\* C26: fix_store_data sends the PUT only when the metadata fetched holds a
\* "database" entry whose value ends with the path of the store; the body
\* is the metadata fetched with the first such entry set to
\* "file:data/<workspace>/<name>/<name>.gpkg" and all else as it was. When
\* no entry matches, or a key the search needs is missing, or the GET
\* fails, GeoServerError is raised and no PUT is sent.
C26_FixStoreData ==
    [][/\ (pc = "fix_store_data: put" /\ Len(requests') > Len(requests)) =>
              /\ requests'[Len(requests')].method = "PUT"
              /\ MatchingEntries(get_resp, call.name) # {}
              /\ json_data =
                    [get_resp EXCEPT
                        !.dataStore.connectionParameters.entry[
                            FirstMatching(get_resp, call.name)] =
                                ConnParam("database",
                                          "file:data/w/" \o call.name \o "/"
                                              \o call.name \o ".gpkg")]
       /\ (/\ pc = "fix_store_data: entries"
           /\ \/ MatchingEntries(get_resp, call.name) = {}
              \/ LacksExpectedKeys(get_resp, call.name)) =>
              /\ pc' = "raised"
              /\ outcome'.err.cls = "GeoServerError"
              /\ requests' = requests
       /\ (pc = "fix_store_data" /\ resp'.status_code \notin {200, 201, 202}) =>
              /\ pc' = "raised"
              /\ outcome'.err.cls = "GeoServerError"
       /\ pc = "raised" => requests' = requests]_vars

C26_Witness ==
    /\ call.fn = "ingest_store"
    /\ pc = "returned"
    /\ Len(requests) = 3
    /\ Len(EntriesOf(get_resp)) = 3
    /\ FirstMatching(get_resp, call.name) = 2
    /\ EntriesOf(json_data)[2]["$"] = "file:data/w/" \o call.name \o "/" \o call.name \o ".gpkg"
    /\ EntriesOf(json_data)[3] = EntriesOf(get_resp)[3]

\* The url set_default_style reads and writes for a layer.
LayerUrlOf(layer_name) == "http://h/geoserver/rest/workspaces/w/layers/" \o layer_name

\* The requests that ingest a layer, in the order they are sent.
IngestRequestsOf(layer) ==
    IF layer.data_type = "tiles"
    THEN <<Request("PUT", UploadUrlOf(layer.table_name, layer.data_type))>>
    ELSE <<Request("PUT", UploadUrlOf(layer.table_name, layer.data_type)),
           Request("GET", "http://h/geoserver/rest/workspaces/w/datastores/" \o layer.table_name),
           Request("PUT", "http://h/geoserver/rest/workspaces/w/datastores/" \o layer.table_name)>>

\* The last n elements of the sequence s, all of s when it is shorter.
LastN(s, n) == IF Len(s) <= n THEN s ELSE SubSeq(s, Len(s) - n + 1, Len(s))

\* C27: in the importer the step that raises GeoPackageError or
\* GeoServerError ends the program, and once one was raised no request is
\* sent and no file or layer is taken; the first request that sets the
\* default style of a layer is sent only when the requests just before it
\* are those that ingest this layer and the last of them was answered OK,
\* CREATED or ACCEPTED.
C27_FirstErrorStopsRun ==
    [][/\ outcome'.err.cls \in {"GeoPackageError", "GeoServerError"} => pc' = "exit"
       /\ outcome.err.cls \in {"GeoPackageError", "GeoServerError"} =>
              /\ requests' = requests
              /\ files' = files
              /\ infos' = infos
       /\ (/\ pc # "style"
           /\ Len(requests') = Len(requests) + 1
           /\ requests'[Len(requests')] = Request("GET", LayerUrlOf(info'.table_name))) =>
              /\ LastN(requests, Len(IngestRequestsOf(info))) = IngestRequestsOf(info)
              /\ resp.status_code \in {200, 201, 202}
       /\ (/\ pc # "style"
           /\ Len(requests') = Len(requests) + 1
           /\ requests'[Len(requests')] = Request("PUT", LayerUrlOf(info'.table_name))) =>
              /\ requests[Len(requests)] = Request("GET", LayerUrlOf(info.table_name))
              /\ resp.status_code \in {200, 201, 202}]_vars

C27_Witness ==
    /\ call.fn = "batch"
    /\ pc = "exit"
    /\ outcome.err.cls = "GeoServerError"
    /\ exit_status = 0
    /\ files # <<>>
    /\ infos # <<>>
    /\ \E i \in 1..Len(requests) : requests[i] = Request("PUT", LayerUrlOf("invalid_geom"))

\* C28: when args.style is a name and the server's list of styles, fetched
\* with success, has no style of that name, the program ends with status 1
\* with only the list requested and no file taken; without --style no
\* request to the url of a layer is ever sent.
C28_StyleMustExist ==
    [][/\ (/\ pc = "style"
           /\ call.style \notin {None, ""}
           /\ resp'.status_code \in {200, 201, 202}
           /\ \A i \in 1..Len(get_resp'.styles.style) :
                 get_resp'.styles.style[i].name # call.style) =>
              /\ pc' = "exit"
              /\ exit_status' = 1
              /\ files' = call.files
              /\ requests' = <<Request("GET", "http://h/geoserver/rest/styles")>>
       /\ pc = "exit" => requests' = requests
       /\ call.style = None =>
              \A i \in 1..Len(requests') :
                 \A name \in {"invalid_geom", "notes", "relief", "orphan"} :
                    requests'[i].url # LayerUrlOf(name)]_vars

C28_Witness ==
    /\ call.fn = "batch"
    /\ call.style = "nope"
    /\ pc = "exit"
    /\ exit_status = 1
    /\ outcome = NotCalled
    /\ Len(requests) = 1
    /\ get_resp.styles.style # <<>>
    /\ files = call.files

\* The names init_types gives the type dtype.
ColumnsOfType(dtype) == {h \in DOMAIN init_types : init_types[h] = dtype}

\* C29: the form is at the button, in the loop over the rows or past it
\* only with exactly one name of type LATITUDE and exactly one of type
\* LONGITUDE in init_types; with none or several of either it has stopped
\* after validation with an error shown, no row read and no file written.
C29_ExactlyOneLatLon ==
    /\ (pc \in {"button", "idle", "rows", "raised", "done"} \/ rows_read > 0 \/ written # {}) =>
          /\ Cardinality(ColumnsOfType("LATITUDE")) = 1
          /\ Cardinality(ColumnsOfType("LONGITUDE")) = 1
    /\ (/\ pc \notin {"assign", "validate"}
        /\ \/ Cardinality(ColumnsOfType("LATITUDE")) # 1
           \/ Cardinality(ColumnsOfType("LONGITUDE")) # 1) =>
          /\ pc = "stopped"
          /\ Len(st_errors) = 1
          /\ rows_read = 0
          /\ written = {}
          /\ data = <<>>

C29_Witness ==
    /\ call = [fn |-> "csv2gpkg"]
    /\ pc = "stopped"
    /\ Cardinality(ColumnsOfType("LATITUDE")) = 2
    /\ Cardinality(ColumnsOfType("LONGITUDE")) = 1
    /\ st_errors = <<"Too many latitude columns assigned">>
    /\ rows_read = 0

====
